---- MODULE Spec2Model ----
(***************************************************************************)
(* NeuralNexus: the search-augmented answer pipeline.                      *)
(*                                                                         *)
(*   RoleHandler.process_query -> role.process_query                       *)
(*        -> WebSearch.search -> WebSearch._make_request (retry, limiter)  *)
(*        -> LLMHandler.get_response                                       *)
(*                                                                         *)
(* Every coroutine run is a task; an action is the code a task runs        *)
(* between two suspension points (an awaited HTTP request, an awaited      *)
(* sleep, a blocked semaphore acquisition, an awaited completion).         *)
(* A Python string is a sequence of one-character strings.                 *)
(***************************************************************************)
EXTENDS Integers, Sequences, FiniteSets, TLC

\* ------------------------------------------------------------------ bounds

\* Pipeline tasks (queries the UI has submitted at the same time), Spec.
NumQueries == 1
\* Concurrent callers of WebSearch.search on the one instance, SpecLimiter.
NumSearches == 4
\* datetime.now().year at the time of the run.
CurrentYear == 2026
\* Lines of a completion text, SpecFunctions.
MaxLines == 2
\* Search results handed to a role's evidence loop, SpecFunctions.
MaxResults == 3
\* Source signals handed to calculate_confidence, SpecFunctions.
MaxSources == 6
\* Query terms handed to _calculate_relevance, SpecFunctions.
MaxTerms == 2

\* ------------------------------------------------------- program constants

\* WebSearch.__init__
max_retries == 2
concurrent_limit == 3

None == "None"

\* --------------------------------------------------------- Python strings

UpperChars ==
    <<"A", "B", "C", "D", "E", "F", "G", "H", "I", "J", "K", "L", "M",
      "N", "O", "P", "Q", "R", "S", "T", "U", "V", "W", "X", "Y", "Z">>
LowerChars ==
    <<"a", "b", "c", "d", "e", "f", "g", "h", "i", "j", "k", "l", "m",
      "n", "o", "p", "q", "r", "s", "t", "u", "v", "w", "x", "y", "z">>
Whitespace == {" ", "\n", "\t", "\r"}

\* str.lower, one character
lower_char(c) ==
    IF \E i \in 1..Len(UpperChars) : UpperChars[i] = c
    THEN LowerChars[CHOOSE i \in 1..Len(UpperChars) : UpperChars[i] = c]
    ELSE c

\* str.lower
lower(s) == [i \in 1..Len(s) |-> lower_char(s[i])]

\* `t in s` for two strings
contains(t, s) ==
    \E i \in 0..(Len(s) - Len(t)) : SubSeq(s, i + 1, i + Len(t)) = t

\* str.startswith
startswith(s, t) == Len(t) <= Len(s) /\ SubSeq(s, 1, Len(t)) = t

RECURSIVE split_ws_from(_, _, _)
split_ws_from(s, i, cur) ==
    IF i > Len(s)
    THEN IF cur = <<>> THEN <<>> ELSE <<cur>>
    ELSE IF s[i] \in Whitespace
         THEN IF cur = <<>>
              THEN split_ws_from(s, i + 1, <<>>)
              ELSE <<cur>> \o split_ws_from(s, i + 1, <<>>)
         ELSE split_ws_from(s, i + 1, Append(cur, s[i]))

\* str.split() without a separator: runs of whitespace separate, no empty words
split(s) == split_ws_from(s, 1, <<>>)

\* str.split(c) for a one-character separator: the pieces between the
\* separators, the empty ones too
split_on(s, c) ==
    LET at == {i \in 1..Len(s) : s[i] = c}
        \* the k-th separator; 0 before the first, Len(s) + 1 after the last
        sep(k) == IF k = 0 THEN 0
                  ELSE IF k > Cardinality(at) THEN Len(s) + 1
                  ELSE CHOOSE i \in at : Cardinality({j \in at : j < i}) = k - 1
    IN  [k \in 1..(Cardinality(at) + 1) |-> SubSeq(s, sep(k - 1) + 1, sep(k) - 1)]

RECURSIVE join(_, _)
\* sep.join(parts)
join(sep, parts) ==
    IF parts = <<>> THEN <<>>
    ELSE IF Len(parts) = 1 THEN parts[1]
    ELSE parts[1] \o sep \o join(sep, Tail(parts))

RECURSIVE replace(_, _, _)
\* str.replace(old, new), old not empty
replace(s, old, new) ==
    IF s = <<>> THEN <<>>
    ELSE IF startswith(s, old)
         THEN new \o replace(SubSeq(s, Len(old) + 1, Len(s)), old, new)
         ELSE <<Head(s)>> \o replace(Tail(s), old, new)

\* The elements of a sequence, as a set
Range(seq) == {seq[i] : i \in 1..Len(seq)}

\* _enhance_query: the search modifiers, in the order of the dict
modifiers ==
    <<
       [key |-> <<"f", "a", "c", "t", " ", "c", "h", "e", "c", "k">>,
        terms |-> <<<<"f", "a", "c", "t", " ", "c", "h", "e", "c", "k">>,
                    <<"v", "e", "r", "i", "f", "y">>,
                    <<"e", "v", "i", "d", "e", "n", "c", "e">>>>],
       [key |-> <<"r", "e", "s", "e", "a", "r", "c", "h">>,
        terms |-> <<<<"r", "e", "s", "e", "a", "r", "c", "h", " ", "p", "a", "p", "e", "r">>,
                    <<"a", "c", "a", "d", "e", "m", "i", "c">>,
                    <<"s", "t", "u", "d", "y">>>>],
       [key |-> <<"t", "e", "c", "h", "n", "i", "c", "a", "l">>,
        terms |-> <<<<"t", "e", "c", "h", "n", "i", "c", "a", "l", " ", "d", "o", "c", "u", "m", "e", "n", "t", "a", "t", "i", "o", "n">>,
                    <<"a", "p", "i">>,
                    <<"i", "m", "p", "l", "e", "m", "e", "n", "t", "a", "t", "i", "o", "n">>>>],
       [key |-> <<"n", "e", "w", "s">>,
        terms |-> <<<<"n", "e", "w", "s">>,
                    <<"r", "e", "c", "e", "n", "t">>,
                    <<"c", "u", "r", "r", "e", "n", "t", " ", "e", "v", "e", "n", "t", "s">>>>],
       [key |-> <<"a", "n", "a", "l", "y", "s", "i", "s">>,
        terms |-> <<<<"a", "n", "a", "l", "y", "s", "i", "s">>,
                    <<"i", "n", "s", "i", "g", "h", "t", "s">>,
                    <<"e", "x", "p", "e", "r", "t", " ", "o", "p", "i", "n", "i", "o", "n">>>>]
    >>

\* ------------------------------------------------ WebSearch, pure functions

\* WebSearch._sanitize_query
_sanitize_query(query) == join(<<" ">>, split(query))

\* A cache wrapper whose body returns stored results (C29 rules it out)
_get_cached_results_stored(query) ==
    <<[title |-> query, url |-> <<"h", "t", "t", "p", ":", "/", "/", "a", "/">>,
       description |-> query, relevance_score |-> [num |-> 1, den |-> 1]]>>

\* WebSearch._get_cached_results: the lru_cache wraps a body that returns None
_get_cached_results(query) == None

\* An enhancement that takes every term of a matching category, not its first
\* (C26 rules it out)
query_modifiers_all_terms(role_context) ==
    LET role_terms == lower(role_context)
        matching == SelectSeq(modifiers,
                        LAMBDA m : \E j \in 1..Len(m.terms) : contains(m.terms[j], role_terms))
    IN  IF matching = <<>> THEN <<>>
        ELSE [i \in 1..(3 * Len(matching)) |->
                 matching[(i + 2) \div 3].terms[((i - 1) % 3) + 1]]

\* _enhance_query: the modifiers whose category has a term in the role context,
\* the first term of each, in the table's order
query_modifiers(role_context) ==
    LET role_terms == lower(role_context)
        matching == SelectSeq(modifiers,
                        LAMBDA m : \E j \in 1..Len(m.terms) : contains(m.terms[j], role_terms))
    IN  [i \in 1..Len(matching) |-> matching[i].terms[1]]

\* WebSearch._enhance_query
_enhance_query(query, role_context) ==
    LET mods == query_modifiers(role_context)
    IN  IF mods # <<>> THEN join(<<" ">>, mods) \o <<" ">> \o query ELSE query

RECURSIVE Orders(_)
\* Every order in which a finite set can be iterated
Orders(S) ==
    IF S = {} THEN {<<>>}
    ELSE UNION {{<<x>> \o o : o \in Orders(S \ {x})} : x \in S}

RECURSIVE one_order(_)
one_order(S) ==
    IF S = {} THEN <<>>
    ELSE LET x == CHOOSE y \in S : TRUE IN <<x>> \o one_order(S \ {x})

RECURSIVE sum_len(_)
sum_len(parts) == IF parts = <<>> THEN 0 ELSE Len(Head(parts)) + sum_len(Tail(parts))

\* A relevance is the rational num/den, 0 <= num <= den
rel_gt(a, b) == a.num * b.den > b.num * a.den
rel_value(num, den) == [num |-> IF num > den THEN den ELSE num, den |-> den]

\* A relevance that divides by the number of terms as given, before they are
\* lower-cased (C17 rules it out)
_calculate_relevance_raw_terms(result, query_terms, order) ==
    LET text == lower(result.title \o <<" ">> \o result.description)
        query_terms_lower == {lower(term) : term \in query_terms}
        term_count == Cardinality({term \in query_terms_lower : contains(term, text)})
        n == Cardinality(query_terms)
        boost == contains(join(<<" ">>, order), text)
    IN  IF n = 0 THEN rel_value(0, 1)
        ELSE rel_value(IF boost THEN 3 * term_count ELSE 2 * term_count, 2 * n)

\* WebSearch._calculate_relevance; `order` is the order in which join() iterates
\* the set query_terms_lower
_calculate_relevance(result, query_terms, order) ==
    LET text == lower(result.title \o <<" ">> \o result.description)
        query_terms_lower == {lower(term) : term \in query_terms}
        term_count == Cardinality({term \in query_terms_lower : contains(term, text)})
        n == Cardinality(query_terms_lower)
        boost == contains(join(<<" ">>, order), text)
    IN  IF n = 0 THEN rel_value(0, 1)
        ELSE rel_value(IF boost THEN 3 * term_count ELSE 2 * term_count, 2 * n)

\* The iteration orders of query_terms_lower that search can meet: all of them
\* when the joined phrase can occur in some result text, else one (the phrase
\* is longer than every text, so no order makes a difference)
iteration_orders(query_terms, raw_results) ==
    LET query_terms_lower == {lower(term) : term \in query_terms}
        phrase_len == sum_len(one_order(query_terms_lower))
                        + (IF query_terms_lower = {} THEN 0
                           ELSE Cardinality(query_terms_lower) - 1)
        fits(r) == /\ {"title", "description"} \subseteq DOMAIN r
                   /\ phrase_len <= Len(r.title) + 1 + Len(r.description)
    IN  IF \E i \in 1..Len(raw_results) : fits(raw_results[i])
        THEN Orders(query_terms_lower)
        ELSE {one_order(query_terms_lower)}

\* Scores of assess_source_quality are counted in units of 1/2000.
reputable_domains(domain_ext) ==
    CASE domain_ext = <<"e", "d", "u">> -> 900
      [] domain_ext = <<"g", "o", "v">> -> 900
      [] domain_ext = <<"o", "r", "g">> -> 700
      [] domain_ext = <<"c", "o", "m">> -> 500
      [] OTHER -> 300

source_types(source_type) ==
    CASE source_type = "academic" -> 900
      [] source_type = "news" -> 600
      [] source_type = "blog" -> 400
      [] source_type = "forum" -> 300
      [] OTHER -> 200

\* assess_source_quality raises TypeError on a publication year that is no number
quality_raises(source) == source.publication_year.type # "int"

\* A quality whose freshness is not held at 0 for old sources (C18 rules it out)
assess_source_quality_no_floor(source) ==
    LET labels == split_on(source.domain, ".")
        domain_ext == labels[Len(labels)]
        years_old == CurrentYear - source.publication_year.value
        quality_score == reputable_domains(domain_ext) + 30 * (10 - years_old)
                            + source_types(source.type)
    IN  IF quality_score > 2000 THEN 2000 ELSE quality_score

\* WebSearch.assess_source_quality, in units of 1/2000
assess_source_quality(source) ==
    LET labels == split_on(source.domain, ".")
        domain_ext == labels[Len(labels)]
        years_old == CurrentYear - source.publication_year.value
        \* max(0, 1 - years_old / 10) * 0.3, in thousandths
        freshness == IF 10 - years_old > 0 THEN 30 * (10 - years_old) ELSE 0
        quality_score == reputable_domains(domain_ext) + freshness
                            + source_types(source.type)
    IN  IF quality_score > 2000 THEN 2000 ELSE quality_score

RECURSIVE sum_seq(_)
sum_seq(s) == IF s = <<>> THEN 0 ELSE Head(s) + sum_seq(Tail(s))

\* floor of the square root
isqrt(x) == CHOOSE r \in 0..2000 : r * r <= x /\ (r + 1) * (r + 1) > x

\* How floating point decides a comparison with 0.7 of a value that is 7/10 in
\* exact arithmetic: TRUE when the computed value lands above the literal
Roundings == [avg_score : BOOLEAN, consistency : BOOLEAN]

\* Floating point that lands on or below the literal in both comparisons
exact == [avg_score |-> FALSE, consistency |-> FALSE]

\* A confidence that adds its three parts without their weights (C16 rules it out)
calculate_confidence_unweighted(sources, rounding) ==
    IF sources = <<>>
    THEN [score |-> 0, reasons |-> <<"No sources found">>]
    ELSE
      LET n == Len(sources)
          source_scores == [i \in 1..n |-> assess_source_quality(sources[i])]
      IN  [score |-> (50 * sum_seq(source_scores)) \div n
                        + (IF n > 1 THEN 100000 ELSE 50000)
                        + 20000 * (IF n > 5 THEN 5 ELSE n),
           reasons |-> <<>>]

\* A confidence that counts three sources as multiple, num_sources_score >= 0.6
\* (C25 rules it out)
calculate_confidence_three_sources(sources, rounding) ==
    IF sources = <<>>
    THEN [score |-> 0, reasons |-> <<"No sources found">>]
    ELSE
      LET n == Len(sources)
          source_scores == [i \in 1..n |-> assess_source_quality(sources[i])]
          total == sum_seq(source_scores)
          spread == n * sum_seq([i \in 1..n |-> source_scores[i] * source_scores[i]])
                        - total * total
          stdev == isqrt(spread \div (n * (n - 1)))
      IN  [score |-> (20 * total) \div n
                        + (IF n > 1 THEN 30000 - 15 * stdev ELSE 15000)
                        + 6000 * (IF n > 5 THEN 5 ELSE n),
           reasons |-> (IF total > 1400 * n \/ (total = 1400 * n /\ rounding.avg_score)
                        THEN <<"High-quality sources found">> ELSE <<>>)
                    \o (IF n > 1 /\ (\/ spread < 360000 * n * (n - 1)
                                     \/ spread = 360000 * n * (n - 1)
                                           /\ rounding.consistency)
                        THEN <<"Consistent information across sources">> ELSE <<>>)
                    \o (IF n > 2
                        THEN <<"Multiple sources (" \o ToString(n)
                                \o ") corroborate the information">>
                        ELSE <<>>)]

\* WebSearch.calculate_confidence.  The score is counted in units of 1/100000:
\* 0.4 * avg + 0.3 * consistency + 0.3 * num_sources_score, the standard deviation
\* (statistics.stdev, n - 1 in the denominator) rounded down to 1/2000.
\* The code computes avg_score and consistency in binary floating point and
\* compares them with the literal 0.7.  Where the exact values differ from 7/10
\* they differ by far more than the rounding error, and the comparison is the
\* exact one; where the exact value is 7/10 the comparison is decided by the
\* rounding of the sums and quotients (six signals of quality 0.7 give
\* avg_score = 0.7000000000000001), which `rounding` stands for.
calculate_confidence(sources, rounding) ==
    IF sources = <<>>
    THEN [score |-> 0, reasons |-> <<"No sources found">>]
    ELSE
      LET n == Len(sources)
          source_scores == [i \in 1..n |-> assess_source_quality(sources[i])]
          total == sum_seq(source_scores)
          \* n * sum(x^2) - (sum x)^2 = n * (n - 1) * variance
          spread == n * sum_seq([i \in 1..n |-> source_scores[i] * source_scores[i]])
                        - total * total
          stdev == isqrt(spread \div (n * (n - 1)))
          avg_part == (20 * total) \div n
          consistency_part == IF n > 1 THEN 30000 - 15 * stdev ELSE 15000
          num_part == 6000 * (IF n > 5 THEN 5 ELSE n)
          high_quality == \/ total > 1400 * n
                          \/ total = 1400 * n /\ rounding.avg_score
          consistent == /\ n > 1
                        /\ \/ spread < 360000 * n * (n - 1)
                           \/ spread = 360000 * n * (n - 1) /\ rounding.consistency
          multiple == n > 3
      IN  [score |-> avg_part + consistency_part + num_part,
           reasons |-> (IF high_quality THEN <<"High-quality sources found">> ELSE <<>>)
                    \o (IF consistent
                        THEN <<"Consistent information across sources">> ELSE <<>>)
                    \o (IF multiple
                        THEN <<"Multiple sources (" \o ToString(n)
                                \o ") corroborate the information">>
                        ELSE <<>>)]

\* --------------------------------------------------- WebSearch.search, body

RECURSIVE insert_by_relevance(_, _)
\* x goes after every element whose relevance is not lower: equal keys keep
\* their order
insert_by_relevance(sorted, x) ==
    IF sorted = <<>> THEN <<x>>
    ELSE IF rel_gt(x.relevance_score, Head(sorted).relevance_score)
         THEN <<x>> \o sorted
         ELSE <<Head(sorted)>> \o insert_by_relevance(Tail(sorted), x)

RECURSIVE insert_before_ties(_, _)
\* x goes before the first element whose relevance is not higher
insert_before_ties(sorted, x) ==
    IF sorted = <<>> THEN <<x>>
    ELSE IF rel_gt(Head(sorted).relevance_score, x.relevance_score)
         THEN <<Head(sorted)>> \o insert_before_ties(Tail(sorted), x)
         ELSE <<x>> \o sorted

RECURSIVE sort_ties_reversed(_)
\* A sort that turns the order of equal keys around (C19 rules it out)
sort_ties_reversed(results) ==
    IF results = <<>> THEN <<>>
    ELSE insert_before_ties(sort_ties_reversed(SubSeq(results, 1, Len(results) - 1)),
                            results[Len(results)])

RECURSIVE sort_by_relevance(_)
\* list.sort(key=relevance_score, reverse=True)
sort_by_relevance(results) ==
    IF results = <<>> THEN <<>>
    ELSE insert_by_relevance(sort_by_relevance(SubSeq(results, 1, Len(results) - 1)),
                             results[Len(results)])

\* SearchMetrics(total_time=0, cache_hit=False, results_count=0); total_time_set
\* counts the assignments to total_time after the constructor
new_metrics ==
    [total_time_set |-> 0, cache_hit |-> FALSE, results_count |-> 0, error |-> None]

\* The exception, if any, that building the result from one raw result raises
result_raises(result) ==
    IF ~({"title", "description", "url"} \subseteq DOMAIN result) THEN "KeyError"
    ELSE IF Len(split_on(result.url, "/")) < 3 THEN "IndexError"
    ELSE None

\* search, lines 226-235: the SearchResult of one raw result
search_result(result, query_terms, order) ==
    [title |-> result.title, url |-> result.url, description |-> result.description,
     relevance_score |-> _calculate_relevance(result, query_terms, order)]

\* search, lines 236-240: the source signal of one raw result
source_of(result) ==
    [domain |-> split_on(result.url, "/")[3],
     publication_year |-> IF "date_published" \in DOMAIN result
                          THEN result.date_published
                          ELSE [type |-> "int", value |-> CurrentYear],
     type |-> "unknown"]

\* An except clause that returns no reasons at all (C1 rules it out)
search_failed_no_reasons(metrics, e) ==
    [results |-> <<>>,
     metrics |-> [metrics EXCEPT !.error = e, !.total_time_set = @ + 1],
     confidence |-> 0,
     reasons |-> <<>>]

\* search, lines 252-256: the except clause
search_failed(metrics, e) ==
    [results |-> <<>>,
     metrics |-> [metrics EXCEPT !.error = e, !.total_time_set = @ + 1],
     confidence |-> 0,
     reasons |-> <<"No confidence assessment">>]

\* search, lines 197-204: the cache hit
search_cached(cached_results) ==
    [results |-> cached_results,
     metrics |-> [new_metrics EXCEPT !.cache_hit = TRUE, !.total_time_set = @ + 1,
                                     !.results_count = Len(cached_results)],
     confidence |-> 0,
     reasons |-> <<"No confidence assessment">>]

\* search, lines 221-256: what search returns once _make_request has ended.
\* `made` is how _make_request ended: [kind |-> "raise", e |-> exception],
\* [kind |-> "return", json |-> the provider's body], or [kind |-> "fall_through"]
\* when the retry loop ran out without a return statement (the call yields None
\* and results.get raises AttributeError).
search_finish(sanitized_query, made, order, rounding) ==
    IF made.kind = "raise" THEN search_failed(new_metrics, made.e)
    ELSE IF made.kind = "fall_through" THEN search_failed(new_metrics, "AttributeError")
    ELSE
      LET query_terms == Range(split(sanitized_query))
          raw == IF "web" \in DOMAIN made.json /\ "results" \in DOMAIN made.json.web
                 THEN made.json.web.results ELSE <<>>
          bad == {i \in 1..Len(raw) : result_raises(raw[i]) # None}
      IN  IF bad # {}
          THEN search_failed(new_metrics,
                             result_raises(raw[CHOOSE i \in bad : \A j \in bad : i <= j]))
          ELSE
            LET search_results ==
                    sort_by_relevance(
                        [i \in 1..Len(raw) |-> search_result(raw[i], query_terms, order)])
                sources == [i \in 1..Len(raw) |-> source_of(raw[i])]
                metrics == [new_metrics EXCEPT !.total_time_set = @ + 1,
                                               !.results_count = Len(search_results)]
            IN  IF \E i \in 1..Len(sources) : quality_raises(sources[i])
                THEN search_failed(metrics, "TypeError")
                ELSE LET c == calculate_confidence(sources, rounding)
                     IN  [results |-> search_results, metrics |-> metrics,
                          confidence |-> c.score, reasons |-> c.reasons]

\* ------------------------------------------------ the roles' texts

\* fact_checker.py:16-33
fact_checker_system_prompt ==
    <<"Y", "o", "u", " ", "a", "r", "e", " ", "a", " ", "F", "a", "c", "t", " ", "C", "h", "e",
    "c", "k", "e", "r", " ", "A", "I", " ", "a", "s", "s", "i", "s", "t", "a", "n", "t", " ",
    "f", "o", "c", "u", "s", "e", "d", " ", "o", "n", ":", "\n", "1", ".", " ", "E", "v", "a",
    "l", "u", "a", "t", "i", "n", "g", " ", "c", "l", "a", "i", "m", "s", " ", "w", "i", "t",
    "h", " ", "c", "l", "e", "a", "r", " ", "c", "o", "n", "f", "i", "d", "e", "n", "c", "e",
    " ", "l", "e", "v", "e", "l", "s", "\n", "2", ".", " ", "D", "i", "s", "t", "i", "n", "g",
    "u", "i", "s", "h", "i", "n", "g", " ", "b", "e", "t", "w", "e", "e", "n", " ", "f", "a",
    "c", "t", "s", " ", "a", "n", "d", " ", "o", "p", "i", "n", "i", "o", "n", "s", "\n", "3",
    ".", " ", "P", "r", "o", "v", "i", "d", "i", "n", "g", " ", "e", "v", "i", "d", "e", "n",
    "c", "e", "-", "b", "a", "s", "e", "d", " ", "r", "e", "s", "p", "o", "n", "s", "e", "s",
    "\n", "4", ".", " ", "C", "r", "o", "s", "s", "-", "r", "e", "f", "e", "r", "e", "n", "c",
    "i", "n", "g", " ", "m", "u", "l", "t", "i", "p", "l", "e", " ", "s", "o", "u", "r", "c",
    "e", "s", "\n", "5", ".", " ", "H", "i", "g", "h", "l", "i", "g", "h", "t", "i", "n", "g",
    " ", "p", "o", "t", "e", "n", "t", "i", "a", "l", " ", "m", "i", "s", "i", "n", "f", "o",
    "r", "m", "a", "t", "i", "o", "n", "\n", "\n", "F", "o", "r", " ", "o", "p", "i", "n", "i",
    "o", "n", "-", "b", "a", "s", "e", "d", " ", "q", "u", "e", "s", "t", "i", "o", "n", "s",
    ":", "\n", "-", " ", "C", "l", "e", "a", "r", "l", "y", " ", "l", "a", "b", "e", "l", " ",
    "t", "h", "e", "m", " ", "a", "s", " ", "s", "u", "b", "j", "e", "c", "t", "i", "v", "e",
    "\n", "-", " ", "P", "r", "o", "v", "i", "d", "e", " ", "b", "a", "l", "a", "n", "c", "e",
    "d", " ", "p", "e", "r", "s", "p", "e", "c", "t", "i", "v", "e", "s", " ", "f", "r", "o",
    "m", " ", "v", "a", "r", "i", "o", "u", "s", " ", "s", "o", "u", "r", "c", "e", "s", "\n",
    "-", " ", "E", "x", "p", "l", "a", "i", "n", " ", "w", "h", "y", " ", "t", "h", "e", " ",
    "t", "o", "p", "i", "c", " ", "i", "s", " ", "s", "u", "b", "j", "e", "c", "t", "i", "v",
    "e", "\n", "-", " ", "S", "t", "i", "l", "l", " ", "p", "r", "o", "v", "i", "d", "e", " ",
    "f", "a", "c", "t", "u", "a", "l", " ", "c", "o", "n", "t", "e", "x", "t", " ", "w", "h",
    "e", "r", "e", " ", "p", "o", "s", "s", "i", "b", "l", "e", "\n", "\n", "A", "l", "w", "a",
    "y", "s", ":", "\n", "-", " ", "S", "t", "a", "t", "e", " ", "y", "o", "u", "r", " ", "c",
    "o", "n", "f", "i", "d", "e", "n", "c", "e", " ", "l", "e", "v", "e", "l", " ", "a", "n",
    "d", " ", "e", "x", "p", "l", "a", "i", "n", " ", "w", "h", "y", "\n", "-", " ", "C", "i",
    "t", "e", " ", "s", "o", "u", "r", "c", "e", "s", " ", "w", "h", "e", "n", " ", "m", "a",
    "k", "i", "n", "g", " ", "c", "l", "a", "i", "m", "s", "\n", "-", " ", "B", "e", " ", "t",
    "r", "a", "n", "s", "p", "a", "r", "e", "n", "t", " ", "a", "b", "o", "u", "t", " ", "l",
    "i", "m", "i", "t", "a", "t", "i", "o", "n", "s", "\n", "-", " ", "C", "o", "r", "r", "e",
    "c", "t", " ", "m", "i", "s", "i", "n", "f", "o", "r", "m", "a", "t", "i", "o", "n", " ",
    "w", "h", "e", "n", " ", "f", "o", "u", "n", "d">>

\* research_assistant.py:13-20
research_assistant_system_prompt ==
    <<"Y", "o", "u", " ", "a", "r", "e", " ", "N", "e", "u", "r", "a", "l", "N", "e", "x", "u",
    "s", "'", "s", " ", "e", "x", "p", "e", "r", "t", " ", "r", "e", "s", "e", "a", "r", "c",
    "h", " ", "a", "s", "s", "i", "s", "t", "a", "n", "t", ".", " ", "Y", "o", "u", "r", " ",
    "r", "o", "l", "e", " ", "i", "s", " ", "t", "o", " ", "p", "r", "o", "v", "i", "d", "e",
    " ", "c", "o", "m", "p", "r", "e", "h", "e", "n", "s", "i", "v", "e", ",", " ", "\n", "w",
    "e", "l", "l", "-", "r", "e", "s", "e", "a", "r", "c", "h", "e", "d", " ", "a", "n", "s",
    "w", "e", "r", "s", " ", "t", "o", " ", "q", "u", "e", "s", "t", "i", "o", "n", "s", " ",
    "u", "s", "i", "n", "g", " ", "b", "o", "t", "h", " ", "s", "e", "a", "r", "c", "h", " ",
    "r", "e", "s", "u", "l", "t", "s", " ", "a", "n", "d", " ", "y", "o", "u", "r", " ", "k",
    "n", "o", "w", "l", "e", "d", "g", "e", ".", "\n", "\n", "S", "t", "r", "u", "c", "t", "u",
    "r", "e", " ", "y", "o", "u", "r", " ", "r", "e", "s", "p", "o", "n", "s", "e", " ", "e",
    "x", "a", "c", "t", "l", "y", " ", "a", "s", " ", "f", "o", "l", "l", "o", "w", "s", ":",
    "\n", "S", "U", "M", "M", "A", "R", "Y", ":", " ", "[", "B", "r", "i", "e", "f", ",", " ",
    "c", "l", "e", "a", "r", " ", "a", "n", "s", "w", "e", "r", " ", "t", "o", " ", "t", "h",
    "e", " ", "q", "u", "e", "s", "t", "i", "o", "n", "]", "\n", "A", "N", "A", "L", "Y", "S",
    "I", "S", ":", " ", "[", "D", "e", "t", "a", "i", "l", "e", "d", " ", "e", "x", "p", "l",
    "a", "n", "a", "t", "i", "o", "n", " ", "w", "i", "t", "h", " ", "m", "u", "l", "t", "i",
    "p", "l", "e", " ", "s", "e", "c", "t", "i", "o", "n", "s", "]", "\n", "K", "E", "Y", "_",
    "P", "O", "I", "N", "T", "S", ":", " ", "[", "M", "a", "i", "n", " ", "t", "a", "k", "e",
    "a", "w", "a", "y", "s", ",", " ", "o", "n", "e", " ", "p", "e", "r", " ", "l", "i", "n",
    "e", " ", "w", "i", "t", "h", " ", "b", "u", "l", "l", "e", "t", " ", "p", "o", "i", "n",
    "t", "s", "]", "\n", "S", "O", "U", "R", "C", "E", "S", ":", " ", "[", "L", "i", "s", "t",
    " ", "o", "f", " ", "r", "e", "f", "e", "r", "e", "n", "c", "e", "s", " ", "u", "s", "e",
    "d", ",", " ", "o", "n", "e", " ", "p", "e", "r", " ", "l", "i", "n", "e", "]">>

\* technical_expert.py:15-34
technical_expert_system_prompt ==
    <<"Y", "o", "u", " ", "a", "r", "e", " ", "a", " ", "T", "e", "c", "h", "n", "i", "c", "a",
    "l", " ", "E", "x", "p", "e", "r", "t", " ", "A", "I", " ", "a", "s", "s", "i", "s", "t",
    "a", "n", "t", " ", "f", "o", "c", "u", "s", "e", "d", " ", "o", "n", ":", "\n", "1", ".",
    " ", "P", "r", "o", "v", "i", "d", "i", "n", "g", " ", "a", "c", "c", "u", "r", "a", "t",
    "e", " ", "t", "e", "c", "h", "n", "i", "c", "a", "l", " ", "e", "x", "p", "l", "a", "n",
    "a", "t", "i", "o", "n", "s", "\n", "2", ".", " ", "E", "x", "p", "l", "a", "i", "n", "i",
    "n", "g", " ", "c", "o", "m", "p", "l", "e", "x", " ", "c", "o", "n", "c", "e", "p", "t",
    "s", " ", "c", "l", "e", "a", "r", "l", "y", "\n", "3", ".", " ", "O", "f", "f", "e", "r",
    "i", "n", "g", " ", "i", "m", "p", "l", "e", "m", "e", "n", "t", "a", "t", "i", "o", "n",
    " ", "g", "u", "i", "d", "a", "n", "c", "e", "\n", "4", ".", " ", "D", "i", "s", "c", "u",
    "s", "s", "i", "n", "g", " ", "b", "e", "s", "t", " ", "p", "r", "a", "c", "t", "i", "c",
    "e", "s", "\n", "5", ".", " ", "A", "n", "a", "l", "y", "z", "i", "n", "g", " ", "t", "e",
    "c", "h", "n", "i", "c", "a", "l", " ", "t", "r", "a", "d", "e", "-", "o", "f", "f", "s",
    "\n", "\n", "W", "h", "e", "n", " ", "a", "n", "s", "w", "e", "r", "i", "n", "g", " ", "q",
    "u", "e", "s", "t", "i", "o", "n", "s", ":", "\n", "-", " ", "S", "t", "a", "r", "t", " ",
    "w", "i", "t", "h", " ", "a", " ", "h", "i", "g", "h", "-", "l", "e", "v", "e", "l", " ",
    "o", "v", "e", "r", "v", "i", "e", "w", "\n", "-", " ", "B", "r", "e", "a", "k", " ", "d",
    "o", "w", "n", " ", "c", "o", "m", "p", "l", "e", "x", " ", "t", "o", "p", "i", "c", "s",
    " ", "i", "n", "t", "o", " ", "d", "i", "g", "e", "s", "t", "i", "b", "l", "e", " ", "p",
    "a", "r", "t", "s", "\n", "-", " ", "I", "n", "c", "l", "u", "d", "e", " ", "r", "e", "l",
    "e", "v", "a", "n", "t", " ", "c", "o", "d", "e", " ", "e", "x", "a", "m", "p", "l", "e",
    "s", " ", "w", "h", "e", "n", " ", "a", "p", "p", "r", "o", "p", "r", "i", "a", "t", "e",
    "\n", "-", " ", "C", "i", "t", "e", " ", "s", "p", "e", "c", "i", "f", "i", "c", " ", "d",
    "o", "c", "u", "m", "e", "n", "t", "a", "t", "i", "o", "n", " ", "a", "n", "d", " ", "r",
    "e", "s", "o", "u", "r", "c", "e", "s", "\n", "-", " ", "E", "x", "p", "l", "a", "i", "n",
    " ", "t", "e", "c", "h", "n", "i", "c", "a", "l", " ", "t", "r", "a", "d", "e", "-", "o",
    "f", "f", "s", " ", "a", "n", "d", " ", "a", "l", "t", "e", "r", "n", "a", "t", "i", "v",
    "e", "s", "\n", "\n", "A", "l", "w", "a", "y", "s", ":", "\n", "-", " ", "B", "e", " ", "p",
    "r", "e", "c", "i", "s", "e", " ", "a", "n", "d", " ", "t", "e", "c", "h", "n", "i", "c",
    "a", "l", "l", "y", " ", "a", "c", "c", "u", "r", "a", "t", "e", "\n", "-", " ", "U", "s",
    "e", " ", "i", "n", "d", "u", "s", "t", "r", "y", "-", "s", "t", "a", "n", "d", "a", "r",
    "d", " ", "t", "e", "r", "m", "i", "n", "o", "l", "o", "g", "y", "\n", "-", " ", "R", "e",
    "f", "e", "r", "e", "n", "c", "e", " ", "o", "f", "f", "i", "c", "i", "a", "l", " ", "d",
    "o", "c", "u", "m", "e", "n", "t", "a", "t", "i", "o", "n", "\n", "-", " ", "H", "i", "g",
    "h", "l", "i", "g", "h", "t", " ", "i", "m", "p", "o", "r", "t", "a", "n", "t", " ", "c",
    "o", "n", "s", "i", "d", "e", "r", "a", "t", "i", "o", "n", "s", "\n", "-", " ", "A", "d",
    "d", "r", "e", "s", "s", " ", "p", "o", "t", "e", "n", "t", "i", "a", "l", " ", "p", "i",
    "t", "f", "a", "l", "l", "s">>

\* technical_expert.py:143-147
technical_expert_search_context ==
    <<"\n", " ", " ", " ", " ", " ", " ", " ", " ", "T", "e", "c", "h", "n", "i", "c", "a", "l",
    " ", "d", "o", "c", "u", "m", "e", "n", "t", "a", "t", "i", "o", "n", ",", " ", "A", "P",
    "I", " ", "r", "e", "f", "e", "r", "e", "n", "c", "e", "s", ",", " ", "i", "m", "p", "l",
    "e", "m", "e", "n", "t", "a", "t", "i", "o", "n", " ", "g", "u", "i", "d", "e", "s", ",",
    " ", "b", "e", "s", "t", " ", "p", "r", "a", "c", "t", "i", "c", "e", "s", ",", "\n", " ",
    " ", " ", " ", " ", " ", " ", " ", "a", "n", "d", " ", "a", "c", "a", "d", "e", "m", "i",
    "c", " ", "p", "a", "p", "e", "r", "s", " ", "r", "e", "l", "a", "t", "e", "d", " ", "t",
    "o", " ", "s", "o", "f", "t", "w", "a", "r", "e", " ", "d", "e", "v", "e", "l", "o", "p",
    "m", "e", "n", "t", ",", " ", "c", "o", "m", "p", "u", "t", "e", "r", " ", "s", "c", "i",
    "e", "n", "c", "e", ",", " ", "a", "n", "d", " ", "e", "n", "g", "i", "n", "e", "e", "r",
    "i", "n", "g", ".", "\n", " ", " ", " ", " ", " ", " ", " ", " ", "P", "r", "i", "o", "r",
    "i", "t", "i", "z", "e", " ", "o", "f", "f", "i", "c", "i", "a", "l", " ", "d", "o", "c",
    "u", "m", "e", "n", "t", "a", "t", "i", "o", "n", ",", " ", "t", "e", "c", "h", "n", "i",
    "c", "a", "l", " ", "b", "l", "o", "g", "s", ",", " ", "a", "n", "d", " ", "p", "e", "e",
    "r", "-", "r", "e", "v", "i", "e", "w", "e", "d", " ", "s", "o", "u", "r", "c", "e", "s",
    ".", "\n", " ", " ", " ", " ", " ", " ", " ", " ">>

\* creative_writer.py:14-33
creative_writer_system_prompt ==
    <<"Y", "o", "u", " ", "a", "r", "e", " ", "a", " ", "C", "r", "e", "a", "t", "i", "v", "e",
    " ", "W", "r", "i", "t", "e", "r", " ", "A", "I", " ", "a", "s", "s", "i", "s", "t", "a",
    "n", "t", " ", "f", "o", "c", "u", "s", "e", "d", " ", "o", "n", ":", "\n", "1", ".", " ",
    "C", "r", "a", "f", "t", "i", "n", "g", " ", "e", "n", "g", "a", "g", "i", "n", "g", " ",
    "n", "a", "r", "r", "a", "t", "i", "v", "e", "s", "\n", "2", ".", " ", "D", "e", "v", "e",
    "l", "o", "p", "i", "n", "g", " ", "c", "r", "e", "a", "t", "i", "v", "e", " ", "c", "o",
    "n", "t", "e", "n", "t", "\n", "3", ".", " ", "M", "a", "i", "n", "t", "a", "i", "n", "i",
    "n", "g", " ", "c", "o", "n", "s", "i", "s", "t", "e", "n", "t", " ", "s", "t", "y", "l",
    "e", "\n", "4", ".", " ", "U", "s", "i", "n", "g", " ", "v", "i", "v", "i", "d", " ", "d",
    "e", "s", "c", "r", "i", "p", "t", "i", "o", "n", "s", "\n", "5", ".", " ", "C", "r", "e",
    "a", "t", "i", "n", "g", " ", "e", "m", "o", "t", "i", "o", "n", "a", "l", " ", "r", "e",
    "s", "o", "n", "a", "n", "c", "e", "\n", "\n", "W", "h", "e", "n", " ", "c", "r", "e", "a",
    "t", "i", "n", "g", " ", "c", "o", "n", "t", "e", "n", "t", ":", "\n", "-", " ", "U", "s",
    "e", " ", "d", "e", "s", "c", "r", "i", "p", "t", "i", "v", "e", " ", "l", "a", "n", "g",
    "u", "a", "g", "e", "\n", "-", " ", "I", "n", "c", "o", "r", "p", "o", "r", "a", "t", "e",
    " ", "s", "t", "o", "r", "y", "t", "e", "l", "l", "i", "n", "g", " ", "e", "l", "e", "m",
    "e", "n", "t", "s", "\n", "-", " ", "M", "a", "i", "n", "t", "a", "i", "n", " ", "c", "o",
    "n", "s", "i", "s", "t", "e", "n", "t", " ", "t", "o", "n", "e", " ", "a", "n", "d", " ",
    "v", "o", "i", "c", "e", "\n", "-", " ", "C", "o", "n", "s", "i", "d", "e", "r", " ", "t",
    "h", "e", " ", "t", "a", "r", "g", "e", "t", " ", "a", "u", "d", "i", "e", "n", "c", "e",
    "\n", "-", " ", "B", "a", "l", "a", "n", "c", "e", " ", "c", "r", "e", "a", "t", "i", "v",
    "i", "t", "y", " ", "w", "i", "t", "h", " ", "c", "l", "a", "r", "i", "t", "y", "\n", "\n",
    "A", "l", "w", "a", "y", "s", ":", "\n", "-", " ", "B", "e", " ", "o", "r", "i", "g", "i",
    "n", "a", "l", " ", "a", "n", "d", " ", "c", "r", "e", "a", "t", "i", "v", "e", "\n", "-",
    " ", "U", "s", "e", " ", "v", "a", "r", "i", "e", "d", " ", "v", "o", "c", "a", "b", "u",
    "l", "a", "r", "y", "\n", "-", " ", "C", "r", "e", "a", "t", "e", " ", "e", "m", "o", "t",
    "i", "o", "n", "a", "l", " ", "c", "o", "n", "n", "e", "c", "t", "i", "o", "n", "s", "\n",
    "-", " ", "M", "a", "i", "n", "t", "a", "i", "n", " ", "n", "a", "r", "r", "a", "t", "i",
    "v", "e", " ", "f", "l", "o", "w", "\n", "-", " ", "C", "o", "n", "s", "i", "d", "e", "r",
    " ", "p", "a", "c", "i", "n", "g", " ", "a", "n", "d", " ", "s", "t", "r", "u", "c", "t",
    "u", "r", "e">>

\* creative_writer.py:129-133
creative_writer_search_context ==
    <<"\n", " ", " ", " ", " ", " ", " ", " ", " ", "C", "r", "e", "a", "t", "i", "v", "e", " ",
    "w", "r", "i", "t", "i", "n", "g", " ", "e", "x", "a", "m", "p", "l", "e", "s", ",", " ",
    "s", "t", "o", "r", "y", "t", "e", "l", "l", "i", "n", "g", " ", "t", "e", "c", "h", "n",
    "i", "q", "u", "e", "s", ",", " ", "n", "a", "r", "r", "a", "t", "i", "v", "e", " ", "s",
    "t", "r", "u", "c", "t", "u", "r", "e", "s", ",", "\n", " ", " ", " ", " ", " ", " ", " ",
    " ", "w", "r", "i", "t", "i", "n", "g", " ", "g", "u", "i", "d", "e", "s", ",", " ", "l",
    "i", "t", "e", "r", "a", "r", "y", " ", "d", "e", "v", "i", "c", "e", "s", ",", " ", "a",
    "n", "d", " ", "s", "t", "y", "l", "i", "s", "t", "i", "c", " ", "e", "l", "e", "m", "e",
    "n", "t", "s", ".", " ", "F", "o", "c", "u", "s", " ", "o", "n", " ", "s", "o", "u", "r",
    "c", "e", "s", "\n", " ", " ", " ", " ", " ", " ", " ", " ", "t", "h", "a", "t", " ", "s",
    "h", "o", "w", "c", "a", "s", "e", " ", "e", "n", "g", "a", "g", "i", "n", "g", " ", "w",
    "r", "i", "t", "i", "n", "g", " ", "a", "n", "d", " ", "c", "r", "e", "a", "t", "i", "v",
    "e", " ", "e", "x", "p", "r", "e", "s", "s", "i", "o", "n", ".", "\n", " ", " ", " ", " ",
    " ", " ", " ", " ">>

wikipedia_suffix == <<" ", "-", " ", "W", "i", "k", "i", "p", "e", "d", "i", "a">>

\* ------------------------------------------------------------- the roles

RoleKeys == {"research_assistant", "fact_checker", "technical_expert", "creative_writer"}

\* A role object built outside RoleHandler: BaseRole.__init__ only
Standalone == "standalone"
RoleInstances == RoleKeys \cup {Standalone}

\* The class of a role instance
role_class(r) == IF r = Standalone THEN "fact_checker" ELSE r

\* self.system_prompt of a role instance
system_prompt(r) ==
    CASE role_class(r) = "fact_checker" -> fact_checker_system_prompt
      [] role_class(r) = "research_assistant" -> research_assistant_system_prompt
      [] role_class(r) = "technical_expert" -> technical_expert_system_prompt
      [] role_class(r) = "creative_writer" -> creative_writer_system_prompt

\* A role that does not override get_search_context (C20 rules it out for
\* technical_expert and creative_writer)
get_search_context_inherited(r) == system_prompt(r)

\* get_search_context: BaseRole returns the system prompt, technical_expert and
\* creative_writer override it
get_search_context(r) ==
    CASE role_class(r) = "technical_expert" -> technical_expert_search_context
      [] role_class(r) = "creative_writer" -> creative_writer_search_context
      [] OTHER -> system_prompt(r)

\* The heading of a role's display text
heading(r) ==
    CASE role_class(r) = "fact_checker" -> "Fact Check Results"
      [] role_class(r) = "research_assistant" -> "Research Results"
      [] role_class(r) = "technical_expert" -> "Technical Analysis"
      [] role_class(r) = "creative_writer" -> "Creative Writing"

RECURSIVE evidence_from_no_skip(_, _)
\* An evidence loop that does not skip the URLs it has seen (C13 rules it out)
evidence_from_no_skip(search_results, seen_urls) ==
    IF search_results = <<>> THEN <<>>
    ELSE LET result == Head(search_results)
         IN  <<[title |-> replace(result.title, wikipedia_suffix, <<>>),
                url |-> result.url,
                description |-> result.description]>>
             \o evidence_from_no_skip(Tail(search_results), seen_urls)

RECURSIVE evidence_from(_, _)
\* process_query, the evidence loop: results whose URL was seen are skipped
evidence_from(search_results, seen_urls) ==
    IF search_results = <<>> THEN <<>>
    ELSE LET result == Head(search_results)
         IN  IF result.url \in seen_urls
             THEN evidence_from(Tail(search_results), seen_urls)
             ELSE <<[title |-> replace(result.title, wikipedia_suffix, <<>>),
                     url |-> result.url,
                     description |-> result.description]>>
                  \o evidence_from(Tail(search_results), seen_urls \cup {result.url})

\* process_query, the numbered evidence list of the display text
evidence_points(search_results) ==
    LET points == evidence_from(search_results, {})
    IN  [i \in 1..Len(points) |-> [number |-> i, point |-> points[i]]]

\* process_query, the display text: heading, the raw completion, the evidence
formatted_response(r, query, raw_response, search_results) ==
    [heading |-> heading(r),
     claim |-> IF role_class(r) = "fact_checker" THEN query ELSE <<>>,
     raw_response |-> raw_response,
     evidence |-> evidence_points(search_results)]

\* LLMHandler.get_response, lines 50-60: the messages of the one request
messages(system, user_query, search_results) ==
    [system |-> system, user_query |-> user_query,
     sources |-> [i \in 1..Len(search_results) |->
                    [title |-> search_results[i].title, url |-> search_results[i].url,
                     description |-> search_results[i].description]]]

\* ------------------------------------------------- regular expressions

\* \s of the re module, for the characters of the model
re_space == Whitespace

\* `.`: any character, a newline only under re.DOTALL
re_dot(c, dotall) == dotall \/ c # "\n"

\* The lookahead (?=stop|$) at offset e of rest: stop follows, or the text ends,
\* or only its last newline follows
re_lookahead(rest, e, stop) ==
    \/ e = Len(rest)
    \/ e = Len(rest) - 1 /\ rest[Len(rest)] = "\n"
    \/ startswith(SubSeq(rest, e + 1, Len(rest)), stop)

\* The ends e at which (.+?)(?=stop|$) can stop when the group starts after
\* offset j of rest
re_group_ends(rest, j, dotall, stop) ==
    {e \in (j + 1)..Len(rest) :
        /\ \A m \in (j + 1)..e : re_dot(rest[m], dotall)
        /\ re_lookahead(rest, e, stop)}

\* \s*(.+?)(?=stop|$) matched at the start of rest: \s* takes the most white
\* space that leaves a match, .+? the least text; <<group 1>>, or <<>> for no match
re_match_rest(rest, dotall, stop) ==
    LET spaces == {j \in 0..Len(rest) : \A m \in 1..j : rest[m] \in re_space}
        starts == {j \in spaces : re_group_ends(rest, j, dotall, stop) # {}}
    IN  IF starts = {} THEN <<>>
        ELSE LET j == CHOOSE x \in starts : \A y \in starts : y <= x
                 ends == re_group_ends(rest, j, dotall, stop)
                 e == CHOOSE x \in ends : \A y \in ends : x <= y
             IN  <<SubSeq(rest, j + 1, e)>>

\* re.search(header + '\s*(.+?)(?=stop|$)', text): the match at the leftmost
\* position that has one; <<group 1>>, or <<>> for None
re_search(header, text, dotall, stop) ==
    LET rest_at(i) == SubSeq(text, i + Len(header), Len(text))
        found == {i \in 1..Len(text) :
                    /\ startswith(SubSeq(text, i, Len(text)), header)
                    /\ re_match_rest(rest_at(i), dotall, stop) # <<>>}
    IN  IF found = {} THEN <<>>
        ELSE re_match_rest(rest_at(CHOOSE i \in found : \A k \in found : i <= k),
                           dotall, stop)

\* ------------------------------------------- fact_checker, the parser

RECURSIVE lstrip(_)
lstrip(s) == IF s # <<>> /\ Head(s) \in Whitespace THEN lstrip(Tail(s)) ELSE s

RECURSIVE rstrip(_)
rstrip(s) ==
    IF s # <<>> /\ s[Len(s)] \in Whitespace THEN rstrip(SubSeq(s, 1, Len(s) - 1)) ELSE s

\* str.strip
strip(s) == rstrip(lstrip(s))

\* The headers of fact_checker.parse_llm_response
VERDICT_header == <<"V", "E", "R", "D", "I", "C", "T", ":">>
EXPLANATION_header == <<"E", "X", "P", "L", "A", "N", "A", "T", "I", "O", "N", ":">>
CONTEXT_header == <<"C", "O", "N", "T", "E", "X", "T", ":">>
REFERENCES_header == <<"R", "E", "F", "E", "R", "E", "N", "C", "E", "S", ":">>
CONFIDENCE_LEVEL_header ==
    <<"C", "O", "N", "F", "I", "D", "E", "N", "C", "E", " ", "L", "E", "V", "E", "L", ":">>
OPINION_WARNING_header ==
    <<"O", "P", "I", "N", "I", "O", "N", " ", "W", "A", "R", "N", "I", "N", "G", ":">>

\* parse_llm_response, lines 284-294: the locals before the loop.  `aliased`
\* says that sections['references'] and section_content are one list object
parse_start ==
    [sections |-> [verdict |-> <<>>, explanation |-> <<>>, context |-> <<>>,
                   references |-> <<>>, confidence_level |-> <<>>,
                   opinion_warning |-> <<>>],
     current_section |-> None,
     section_content |-> <<>>,
     aliased |-> FALSE]

\* parse_llm_response, lines 301-319: the if/elif chain on one stripped line
parse_header(st, line) ==
    IF startswith(line, VERDICT_header)
    THEN [st EXCEPT !.current_section = "verdict",
                    !.sections.verdict = strip(replace(line, VERDICT_header, <<>>))]
    ELSE IF startswith(line, EXPLANATION_header)
    THEN [st EXCEPT !.current_section = "explanation", !.section_content = <<>>,
                    !.aliased = FALSE]
    ELSE IF startswith(line, CONTEXT_header)
    THEN [st EXCEPT !.current_section = "context", !.section_content = <<>>,
                    !.aliased = FALSE]
    ELSE IF startswith(line, REFERENCES_header)
    THEN [st EXCEPT !.current_section = "references", !.section_content = <<>>,
                    !.aliased = FALSE]
    ELSE IF startswith(line, CONFIDENCE_LEVEL_header)
    THEN [st EXCEPT !.current_section = "confidence_level",
                    !.sections.confidence_level =
                        strip(replace(line, CONFIDENCE_LEVEL_header, <<>>))]
    ELSE IF startswith(line, OPINION_WARNING_header)
    THEN [st EXCEPT !.current_section = "opinion_warning",
                    !.sections.opinion_warning =
                        strip(replace(line, OPINION_WARNING_header, <<>>))]
    ELSE IF st.current_section # None
    THEN \* section_content.append(line): the list object that references may be
         [st EXCEPT !.section_content = Append(@, line),
                    !.sections.references =
                        IF st.aliased THEN Append(st.section_content, line) ELSE @]
    ELSE st

\* parse_llm_response, lines 321-327: the section that the content goes to
parse_store(st) ==
    IF st.section_content = <<>> THEN st
    ELSE IF st.current_section = "explanation"
    THEN [st EXCEPT !.sections.explanation = join(<<"\n">>, st.section_content)]
    ELSE IF st.current_section = "context"
    THEN [st EXCEPT !.sections.context = join(<<"\n">>, st.section_content)]
    ELSE IF st.current_section = "references"
    THEN [st EXCEPT !.sections.references = st.section_content, !.aliased = TRUE]
    ELSE st

RECURSIVE parse_lines(_, _)
\* parse_llm_response, lines 296-327: the loop over the lines
parse_lines(lines, st) ==
    IF lines = <<>> THEN st
    ELSE LET line == strip(Head(lines))
         IN  IF line = <<>>
             THEN parse_lines(Tail(lines), st)
             ELSE parse_lines(Tail(lines), parse_store(parse_header(st, line)))

\* fact_checker.parse_llm_response
parse_llm_response(response) == parse_lines(split_on(response, "\n"), parse_start).sections

\* ------------------------------------------- the other roles' headers

OVERVIEW_header ==
    <<"O", "V", "E", "R", "V", "I", "E", "W", ":">>
TECHNICAL_DETAILS_header ==
    <<"T", "E", "C", "H", "N", "I", "C", "A", "L", " ", "D", "E", "T", "A", "I", "L", "S",
    ":">>
IMPLEMENTATION_header ==
    <<"I", "M", "P", "L", "E", "M", "E", "N", "T", "A", "T", "I", "O", "N", ":">>
CONSIDERATIONS_header ==
    <<"C", "O", "N", "S", "I", "D", "E", "R", "A", "T", "I", "O", "N", "S", ":">>
SUMMARY_header ==
    <<"S", "U", "M", "M", "A", "R", "Y", ":">>
ANALYSIS_header ==
    <<"A", "N", "A", "L", "Y", "S", "I", "S", ":">>
KEY_POINTS_header ==
    <<"K", "E", "Y", "_", "P", "O", "I", "N", "T", "S", ":">>
SOURCES_header ==
    <<"S", "O", "U", "R", "C", "E", "S", ":">>
CONTENT_header ==
    <<"C", "O", "N", "T", "E", "N", "T", ":">>
STYLE_NOTES_header ==
    <<"S", "T", "Y", "L", "E", " ", "N", "O", "T", "E", "S", ":">>
INSPIRATION_header ==
    <<"I", "N", "S", "P", "I", "R", "A", "T", "I", "O", "N", ":">>

UNKNOWN == <<"U", "N", "K", "N", "O", "W", "N">>
FALSE_verdict == <<"F", "A", "L", "S", "E">>
http_scheme == <<"h", "t", "t", "p", ":", "/", "/">>
https_scheme == <<"h", "t", "t", "p", "s", ":", "/", "/">>
list_marker == <<"-", " ">>

\* str.upper, one character
upper_char(c) ==
    IF \E i \in 1..Len(LowerChars) : LowerChars[i] = c
    THEN UpperChars[CHOOSE i \in 1..Len(LowerChars) : LowerChars[i] = c]
    ELSE c

\* str.upper
upper(s) == [i \in 1..Len(s) |-> upper_char(s[i])]

\* The stripped, non-empty lines of a text
stripped_lines(text) ==
    LET lines == split_on(text, "\n")
    IN  SelectSeq([i \in 1..Len(lines) |-> strip(lines[i])], LAMBDA l : l # <<>>)

\* str.startswith(('http://', 'https://'))
is_link(s) == startswith(s, http_scheme) \/ startswith(s, https_scheme)

\* re.search(r'- (https?://\S+)', ref): <<group 1>> of the leftmost match, or <<>>
re_search_url(ref) ==
    LET url_at(i) ==
            LET rest == SubSeq(ref, i + Len(list_marker), Len(ref))
                scheme == IF startswith(rest, https_scheme) THEN https_scheme
                          ELSE http_scheme
                n == CHOOSE k \in Len(scheme)..Len(rest) :
                        /\ \A m \in (Len(scheme) + 1)..k : rest[m] \notin re_space
                        /\ k = Len(rest) \/ rest[k + 1] \in re_space
            IN  IF is_link(rest) /\ n > Len(scheme) THEN <<SubSeq(rest, 1, n)>> ELSE <<>>
        found == {i \in 1..Len(ref) :
                    startswith(SubSeq(ref, i, Len(ref)), list_marker) /\ url_at(i) # <<>>}
    IN  IF found = {} THEN <<>>
        ELSE url_at(CHOOSE i \in found : \A k \in found : i <= k)

\* A section of a rendering: the block that format_response appends when the
\* section's pattern matched
section_block(tag, match) ==
    IF match = <<>> THEN <<>> ELSE <<[tag |-> tag, body |-> strip(match[1])]>>

\* The fallback of every format_response: the raw text in <pre>
pre_block(raw_response) == <<[tag |-> "pre", body |-> raw_response]>>

\* fact_checker.format_response, lines 132-144: the numbered references
fact_checker_references(match) ==
    IF match = <<>> THEN <<>>
    ELSE LET references == split_on(strip(match[1]), "\n")
             item(i) ==
                LET ref == strip(references[i])
                    url_match == re_search_url(ref)
                IN  IF ref = <<>> THEN <<>>
                    ELSE IF url_match # <<>>
                    THEN <<[tag |-> "reference", number |-> i,
                            body |-> strip(split_on(ref, "-")[1]), url |-> url_match]>>
                    ELSE <<[tag |-> "reference", number |-> i, body |-> ref,
                            url |-> <<>>]>>
             rec[i \in 0..Len(references)] ==
                IF i = 0 THEN <<>> ELSE rec[i - 1] \o item(i)
         IN  <<[tag |-> "references", body |-> <<>>]>> \o rec[Len(references)]

\* fact_checker.format_response on a str, lines 102-146
fact_checker_format(raw_response) ==
    LET verdict_match == re_search(VERDICT_header, raw_response, FALSE, <<"\n">>)
        explanation_match == re_search(EXPLANATION_header, raw_response, FALSE, <<"\n">>)
        context_match == re_search(CONTEXT_header, raw_response, FALSE, <<"\n">>)
        references_match == re_search(REFERENCES_header, raw_response, TRUE, <<"\n">>)
        verdict == IF verdict_match # <<>> THEN strip(verdict_match[1]) ELSE UNKNOWN
    IN  (IF upper(verdict) = FALSE_verdict
         THEN <<[tag |-> "error-message", body |-> split_on(raw_response, "\n")[1]]>>
         ELSE <<>>)
        \o <<[tag |-> "verdict", body |-> verdict]>>
        \o section_block("explanation", explanation_match)
        \o section_block("context", context_match)
        \o fact_checker_references(references_match)

\* The list that technical_expert and creative_writer render from their last
\* section: the stripped non-empty lines, links made clickable where asked
list_block(tag, match, links) ==
    IF match = <<>> THEN <<>>
    ELSE LET lines == stripped_lines(strip(match[1]))
         IN  <<[tag |-> tag,
                body |-> [i \in 1..Len(lines) |->
                            [link |-> links /\ is_link(lines[i]), text |-> lines[i]]]]>>

\* technical_expert.format_response on a str, lines 71-136
technical_expert_format(raw_response) ==
    section_block("overview", re_search(OVERVIEW_header, raw_response, TRUE, <<"\n", "\n">>))
    \o section_block("technical_details",
                     re_search(TECHNICAL_DETAILS_header, raw_response, TRUE, <<"\n", "\n">>))
    \o section_block("implementation",
                     re_search(IMPLEMENTATION_header, raw_response, TRUE, <<"\n", "\n">>))
    \o section_block("considerations",
                     re_search(CONSIDERATIONS_header, raw_response, TRUE, <<"\n", "\n">>))
    \o list_block("references", re_search(REFERENCES_header, raw_response, TRUE, <<"\n">>),
                  TRUE)

\* creative_writer.format_response on a str, lines 39-94
creative_writer_format(raw_response) ==
    section_block("summary", re_search(SUMMARY_header, raw_response, TRUE, <<"\n", "\n">>))
    \o list_block("content", re_search(CONTENT_header, raw_response, TRUE, <<"\n", "\n">>),
                  FALSE)
    \o section_block("style_notes",
                     re_search(STYLE_NOTES_header, raw_response, TRUE, <<"\n", "\n">>))
    \o list_block("inspiration",
                  re_search(INSPIRATION_header, raw_response, TRUE, <<"\n">>), FALSE)

\* research_assistant.parse_llm_response, lines 34-50: one line of the loop
research_assistant_parse_line(st, line) ==
    IF startswith(line, SUMMARY_header)
    THEN [st EXCEPT !.current_section = "summary",
                    !.sections.summary = strip(replace(line, SUMMARY_header, <<>>))]
    ELSE IF startswith(line, ANALYSIS_header)
    THEN [st EXCEPT !.current_section = "analysis",
                    !.sections.analysis = strip(replace(line, ANALYSIS_header, <<>>))]
    ELSE IF startswith(line, KEY_POINTS_header)
    THEN [st EXCEPT !.current_section = "key_points"]
    ELSE IF startswith(line, SOURCES_header)
    THEN [st EXCEPT !.current_section = "sources"]
    ELSE IF strip(line) # <<>> /\ st.current_section # None
    THEN LET item == SubSeq(strip(line), 3, Len(strip(line)))
         IN  IF st.current_section = "analysis"
             THEN [st EXCEPT !.sections.analysis = @ \o <<"\n">> \o line]
             ELSE IF st.current_section = "key_points"
                     /\ startswith(strip(line), list_marker)
             THEN [st EXCEPT !.sections.key_points = Append(@, item)]
             ELSE IF st.current_section = "sources"
                     /\ startswith(strip(line), list_marker)
             THEN [st EXCEPT !.sections.sources = Append(@, item)]
             ELSE st
    ELSE st

RECURSIVE research_assistant_parse_lines(_, _)
research_assistant_parse_lines(lines, st) ==
    IF lines = <<>> THEN st
    ELSE research_assistant_parse_lines(Tail(lines),
                                        research_assistant_parse_line(st, Head(lines)))

\* research_assistant.parse_llm_response on a str
research_assistant_parse(response) ==
    research_assistant_parse_lines(
        split_on(response, "\n"),
        [sections |-> [summary |-> <<>>, analysis |-> <<>>, key_points |-> <<>>,
                       sources |-> <<>>],
         current_section |-> None]).sections

\* research_assistant.format_response on a str, lines 57-109
research_assistant_format(raw_response) ==
    LET sections == research_assistant_parse(raw_response)
        items(list, links) ==
            [i \in 1..Len(list) |-> [link |-> links /\ is_link(list[i]), text |-> list[i]]]
    IN  (IF sections.summary # <<>>
         THEN <<[tag |-> "summary", body |-> sections.summary]>> ELSE <<>>)
        \o (IF sections.analysis # <<>>
            THEN <<[tag |-> "analysis", body |-> sections.analysis]>> ELSE <<>>)
        \o (IF sections.key_points # <<>>
            THEN <<[tag |-> "key_points", body |-> items(sections.key_points, FALSE)]>>
            ELSE <<>>)
        \o (IF sections.sources # <<>>
            THEN <<[tag |-> "sources", body |-> items(sections.sources, TRUE)]>>
            ELSE <<>>)

\* The references of technical_expert, the inspiration of creative_writer:
\* group(1).strip().split('\n'), or [] when the pattern did not match
split_lines(match) ==
    IF match = <<>> THEN <<>> ELSE split_on(strip(match[1]), "\n")

\* group(1).strip(), or '' when the pattern did not match
group_text(match) == IF match = <<>> THEN <<>> ELSE strip(match[1])

\* A parser that puts the whole text into overview when no pattern matches
\* (C21 rules it out)
technical_expert_parse_raw_overview(response) ==
    [overview |-> strip(response), technical_details |-> <<>>, implementation |-> <<>>,
     considerations |-> <<>>, references |-> <<>>]

\* technical_expert.parse_llm_response on a str, lines 42-56
technical_expert_parse(response) ==
    [overview |->
        group_text(re_search(OVERVIEW_header, response, TRUE, <<"\n", "\n">>)),
     technical_details |->
        group_text(re_search(TECHNICAL_DETAILS_header, response, TRUE, <<"\n", "\n">>)),
     implementation |->
        group_text(re_search(IMPLEMENTATION_header, response, TRUE, <<"\n", "\n">>)),
     considerations |->
        group_text(re_search(CONSIDERATIONS_header, response, TRUE, <<"\n", "\n">>)),
     references |-> split_lines(re_search(REFERENCES_header, response, TRUE, <<"\n">>))]

\* creative_writer.parse_llm_response on a str, lines 105-117
creative_writer_parse(response) ==
    [summary |-> group_text(re_search(SUMMARY_header, response, TRUE, <<"\n", "\n">>)),
     content |-> group_text(re_search(CONTENT_header, response, TRUE, <<"\n", "\n">>)),
     style_notes |->
        group_text(re_search(STYLE_NOTES_header, response, TRUE, <<"\n", "\n">>)),
     inspiration |-> split_lines(re_search(INSPIRATION_header, response, TRUE, <<"\n">>))]

\* The structure that a role's parse_llm_response starts from, and that the
\* except clauses of technical_expert and creative_writer return
default_sections(r) ==
    CASE role_class(r) = "fact_checker" -> parse_start.sections
      [] role_class(r) = "research_assistant" ->
            [summary |-> <<>>, analysis |-> <<>>, key_points |-> <<>>, sources |-> <<>>]
      [] role_class(r) = "technical_expert" ->
            [overview |-> <<>>, technical_details |-> <<>>, implementation |-> <<>>,
             considerations |-> <<>>, references |-> <<>>]
      [] role_class(r) = "creative_writer" ->
            [summary |-> <<>>, content |-> <<>>, style_notes |-> <<>>,
             inspiration |-> <<>>]

\* parse_llm_response of a role on a Python value, [type, value]: how the call
\* ends.  On a value that is no str, response.split raises AttributeError in
\* fact_checker and research_assistant, which have no try block; re.search
\* raises TypeError in the other two, whose except clause returns the defaults
role_parse_llm_response(r, response) ==
    IF response.type # "str"
    THEN IF role_class(r) \in {"fact_checker", "research_assistant"}
         THEN [kind |-> "raise", e |-> "AttributeError"]
         ELSE [kind |-> "return", value |-> default_sections(r)]
    ELSE [kind |-> "return",
          value |-> CASE role_class(r) = "fact_checker" ->
                            parse_llm_response(response.value)
                      [] role_class(r) = "research_assistant" ->
                            research_assistant_parse(response.value)
                      [] role_class(r) = "technical_expert" ->
                            technical_expert_parse(response.value)
                      [] role_class(r) = "creative_writer" ->
                            creative_writer_parse(response.value)]

\* The headers that a role's format_response looks for
role_headers(r) ==
    CASE role_class(r) = "fact_checker" ->
            {VERDICT_header, CONFIDENCE_LEVEL_header, EXPLANATION_header, CONTEXT_header,
             REFERENCES_header}
      [] role_class(r) = "research_assistant" ->
            {SUMMARY_header, ANALYSIS_header, KEY_POINTS_header, SOURCES_header}
      [] role_class(r) = "technical_expert" ->
            {OVERVIEW_header, TECHNICAL_DETAILS_header, IMPLEMENTATION_header,
             CONSIDERATIONS_header, REFERENCES_header}
      [] role_class(r) = "creative_writer" ->
            {SUMMARY_header, CONTENT_header, STYLE_NOTES_header, INSPIRATION_header}

\* format_response of a role.  The argument is a Python value, [type, value]:
\* on a value that is no str the first re.search or split raises, and the
\* except clause returns the fallback; no operation of the try block raises on
\* a str
format_response(r, raw_response) ==
    IF raw_response.type # "str" THEN pre_block(raw_response.value)
    ELSE CASE role_class(r) = "fact_checker" -> fact_checker_format(raw_response.value)
           [] role_class(r) = "research_assistant" ->
                 research_assistant_format(raw_response.value)
           [] role_class(r) = "technical_expert" ->
                 technical_expert_format(raw_response.value)
           [] role_class(r) = "creative_writer" ->
                 creative_writer_format(raw_response.value)

\* ---------------------------------------------------------------- inputs

\* User queries: two terms, an upper-case letter and a run of spaces
Queries == {<<"A", " ", " ", "b">>}

\* Role keys the UI passes to RoleHandler.process_query: a role with the
\* inherited search context, one that overrides it, a key of no role
Keys == {"fact_checker", "technical_expert", "poet"}

url_a == <<"h", "t", "t", "p", ":", "/", "/", "a", ".", "e", "d", "u", "/", "p">>
url_b == <<"h", "t", "t", "p", ":", "/", "/", "b", ".", "c", "o", "m", "/", "p">>

result_a == [title |-> <<"a", " ", "b">>, url |-> url_a, description |-> <<"c">>]
result_b == [title |-> <<"b">>, url |-> url_b, description |-> <<"a">>]
result_a2 == [title |-> <<"c">>, url |-> url_a, description |-> <<"a", " ", "b">>]

body(raw_results) == [web |-> [results |-> raw_results]]

\* Bodies of a 200 response
Bodies ==
    { [type |-> "search"],                                   \* no "web" key
      body(<<>>),
      body(<<result_a>>),
      body(<<result_b, result_a>>),
      body(<<result_a, result_a2>>),                         \* one URL twice
      body(<<[result_a EXCEPT !.url = <<"b", ".", "c", "o", "m">>]>>),
      body(<<result_b, [title |-> <<"a">>, url |-> url_a]>>),  \* no description
      body(<<[title |-> <<"a">>, url |-> url_a, description |-> <<"b">>,
              date_published |-> [type |-> "int", value |-> 2020]]>>),
      body(<<[title |-> <<"a">>, url |-> url_a, description |-> <<"b">>,
              date_published |-> [type |-> "str", value |-> 0]]>>) }

\* What an upstream attempt can end with, the timeout aside
Responses ==
    {[kind |-> "response", status |-> 200, json |-> b] : b \in Bodies}
        \cup {[kind |-> "response", status |-> 429],
              [kind |-> "response", status |-> 500],
              [kind |-> "ConnectError"]}

\* The responses that differ in what they do to the retry loop
StatusResponses ==
    {response \in Responses :
        response.kind = "response" /\ response.status = 200
            => response.json = body(<<>>)}

\* Lines of a completion text: the headers of the fact checker with a remainder,
\* list items, a line with blanks around it
line_verdict ==
    <<"V", "E", "R", "D", "I", "C", "T", ":", " ", "T", "R", "U", "E">>
line_explanation ==
    <<"E", "X", "P", "L", "A", "N", "A", "T", "I", "O", "N", ":", " ", "b", "e", "c", "a",
    "u", "s", "e", " ", "X">>
line_context ==
    <<"C", "O", "N", "T", "E", "X", "T", ":", " ", "e", "x", "t", "r", "a">>
line_references ==
    <<"R", "E", "F", "E", "R", "E", "N", "C", "E", "S", ":">>
line_ref_a ==
    <<"-", " ", "h", "t", "t", "p", ":", "/", "/", "a", ".", "e", "x", "a", "m", "p", "l",
    "e">>
line_ref_b ==
    <<"-", " ", "h", "t", "t", "p", ":", "/", "/", "b", ".", "e", "x", "a", "m", "p", "l",
    "e">>
line_confidence ==
    <<"C", "O", "N", "F", "I", "D", "E", "N", "C", "E", " ", "L", "E", "V", "E", "L", ":",
    " ", "h", "i", "g", "h">>
line_plain ==
    <<" ", " ", "n", "o", "t", "e", " ">>

line_summary ==
    <<"S", "U", "M", "M", "A", "R", "Y", ":", " ", "s">>

ResponseLines ==
    {line_verdict, line_explanation, line_context, line_references, line_ref_a,
     line_confidence, line_plain, line_summary}

\* A completion text with every header of the fact checker's prompt format
headers_response ==
    join(<<"\n">>, <<line_verdict, line_explanation, line_context, line_references,
                     line_ref_a, line_ref_b>>)

\* A completion text whose verdict, with a remark under it, follows the list of
\* references
references_first_response ==
    join(<<"\n">>, <<line_references, line_ref_a, line_verdict, line_plain>>)

\* Completion texts: up to MaxLines lines, the one with every header, and the
\* one with the references first
ResponseTexts ==
    {join(<<"\n">>, ls) : ls \in UNION {[1..k -> ResponseLines] : k \in 0..MaxLines}}
        \cup {headers_response, references_first_response}

\* What a caller can pass for a completion text: a str, or None
ResponseValues ==
    {[type |-> "str", value |-> text] : text \in ResponseTexts}
        \cup {[type |-> "NoneType", value |-> <<"N", "o", "n", "e">>]}

\* SearchResult objects: two URLs, one of them on two results, a Wikipedia title
SearchResults ==
    {[title |-> r.title, url |-> r.url, description |-> r.description,
      relevance_score |-> rel_value(1, 1)] :
        r \in {result_a, result_b, result_a2,
                [result_b EXCEPT !.title = <<"b">> \o wikipedia_suffix]}}

\* Result lists of up to MaxResults results
ResultLists == UNION {[1..k -> SearchResults] : k \in 0..MaxResults}

\* Source signals: the best domain and type with a year far in the future, an
\* unknown top-level domain and type with a year long past, a commercial news
\* source of this year
Sources ==
    { [domain |-> <<"a", ".", "e", "d", "u">>,
       publication_year |-> [type |-> "int", value |-> CurrentYear + 80],
       type |-> "academic"],
      [domain |-> <<"c", ".", "z", "z">>,
       publication_year |-> [type |-> "int", value |-> CurrentYear - 20],
       type |-> "unknown"],
      [domain |-> <<"b", ".", "c", "o", "m">>,
       publication_year |-> [type |-> "int", value |-> CurrentYear],
       type |-> "news"] }

\* Lists of up to MaxSources source signals
SourceLists == UNION {[1..k -> Sources] : k \in 0..MaxSources}

\* Raw results of the provider: both terms of "a b", one term each (a tie), none
RawResults ==
    { [title |-> <<"a">>, url |-> url_a, description |-> <<"b">>],
      [title |-> <<"a">>, url |-> url_b, description |-> <<"x">>,
       date_published |-> [type |-> "int", value |-> CurrentYear - 20]],
      [title |-> <<"x">>, url |-> <<"h", "t", "t", "p", ":", "/", "/", "c", ".", "z", "z", "/", "p">>,
       description |-> <<"B">>,
       date_published |-> [type |-> "int", value |-> CurrentYear + 80]],
      [title |-> <<"x">>, url |-> url_a, description |-> <<"y">>] }

\* Bodies of a 200 response with up to MaxResults of these results
SearchBodies == {body(l) : l \in UNION {[1..k -> RawResults] : k \in 0..MaxResults}}

\* Role contexts for _enhance_query: the search contexts of the four roles, and
\* short ones: none; a category key alone; a modifier term that is no key, in
\* upper case; two categories out of the table's order; the key of the first
\* category written with a hyphen; a term inside a word; no term
RoleContexts ==
    {get_search_context(r) : r \in RoleKeys}
        \cup { <<>>,
               <<"R", "e", "s", "e", "a", "r", "c", "h">>,
               <<"V", "E", "R", "I", "F", "Y", " ", "i", "t">>,
               <<"A", "n", "a", "l", "y", "s", "i", "s", " ", "N", "e", "w", "s">>,
               <<"F", "a", "c", "t", "-", "C", "h", "e", "c", "k">>,
               <<"a", " ", "c", "a", "p", "i", "t", "a", "l">>,
               <<"p", "l", "a", "i", "n">> }

\* Sanitized queries
SanitizedQueries == {<<"a", " ", "b">>}

\* Sets of up to MaxTerms query terms: one letter in both cases, another letter,
\* a word of two letters
TermSets ==
    {terms \in SUBSET {<<"a">>, <<"A">>, <<"b">>, <<"a", "b">>} :
        Cardinality(terms) <= MaxTerms}

\* Results by their texts: "a b", "a ", "a ab", "b A b", "b A ", "b A ab", "x b",
\* "x ", "x ab"
ResultTexts ==
    {[title |-> title, description |-> description, url |-> url_a] :
        title \in {<<"a">>, <<"b", " ", "A">>, <<"x">>},
        description \in {<<"b">>, <<>>, <<"a", "b">>}}

\* Source signals for assess_source_quality: known and unknown top-level
\* domains, a host without a dot, the empty domain; years long past, recent,
\* current and far in the future; known and unknown types
QualitySources ==
    {[domain |-> domain,
      publication_year |-> [type |-> "int", value |-> CurrentYear + years],
      type |-> type] :
        domain \in {<<"a", ".", "e", "d", "u">>, <<"b", ".", "c", "o", "m">>,
                    <<"c", ".", "z", "z">>, <<"h", "o", "s", "t">>, <<>>},
        years \in {0 - 40, 0 - 5, 0, 80},
        type \in {"academic", "forum", "unknown", "podcast"}}

\* Texts of a completion
RawResponses == {<<"o", "k">>}

\* ------------------------------------------------------------------ state

VARIABLES
    web_search,   \* role instance -> its search client (BaseRole.web_search)
    llm,          \* role instance -> its completion client (BaseRole.llm)
    _semaphore,   \* WebSearch._semaphore: the free slots
    _cache,       \* the store of lru_cache around _get_cached_results: query -> value
    task          \* task -> the frame of its coroutine

vars == <<web_search, llm, _semaphore, _cache, task>>

NoCall == [entry |-> "none", role |-> "none", query |-> <<>>]
NoSleep == [seconds |-> 0, after |-> "none"]

\* A task that runs nothing
Idle ==
    [pc |-> "idle", call |-> NoCall,
     attempt |-> 0,              \* _make_request: the loop variable
     sleeping |-> NoSleep,       \* the asyncio.sleep awaited, and the exception before it
     search_ret |-> <<>>,        \* what search returned to the role, once it has
     llm_request |-> <<>>,       \* the completion request in flight
     gets |-> 0,                 \* upstream requests issued in this run
     outcomes |-> <<>>,          \* history: how each upstream attempt of the run ended
     body |-> <<>>,              \* history: the body of the 200 response, if any
     searches |-> 0,             \* search calls that returned in this run
     completions |-> 0,          \* completion requests issued in this run
     ret |-> <<>>,               \* the value returned to the caller
     exc |-> None]               \* the exception raised to the caller

Tasks == DOMAIN task

in_flight == {q \in Tasks : task[q].pc = "await_get"}

\* search, lines 207-208: the enhanced and sanitized query, for every role
\* context and query of the model
sanitized_queries ==
    [r \in RoleInstances |->
        [query \in Queries |->
            _sanitize_query(_enhance_query(query, get_search_context(r)))]]

\* The sanitized query of a search call
sanitized_query(c) == sanitized_queries[c.role][c.query]

\* search, lines 220-250: what search can return once _make_request has returned
\* the body json, one value for every order in which the set of query terms
\* can be iterated and every way floating point can round; for every role
\* context, query and body of the model
search_returns ==
    [r \in RoleInstances |->
        [query \in Queries |->
            [json \in Bodies |->
                {search_finish(sanitized_queries[r][query],
                               [kind |-> "return", json |-> json], order, rounding) :
                    rounding \in Roundings,
                    order \in iteration_orders(
                                  Range(split(sanitized_queries[r][query])),
                                  IF "web" \in DOMAIN json
                                  THEN json.web.results ELSE <<>>)}]]]

\* Whether the search context of a role instance occurs in the system message
\* of its completion request (llm_handler.py, line 58), for every role instance
context_in_system ==
    [r \in RoleInstances |-> contains(get_search_context(r), system_prompt(r))]

raise(t, e) == [t EXCEPT !.pc = "raised", !.exc = e, !.llm_request = <<>>]

\* LLMHandler.get_response up to its awaited request: one request, no loop
get_response(t, system, user_query, search_results) ==
    [t EXCEPT !.pc = "await_completion",
              !.llm_request = <<messages(system, user_query, search_results)>>,
              !.completions = @ + 1]

\* A caller that gives up when the search failed (C9 rules it out)
after_search_abort_on_error(q, t, out) ==
    /\ UNCHANGED <<web_search, llm>>
    /\ LET t1 == [t EXCEPT !.search_ret = <<out>>, !.searches = @ + 1,
                            !.sleeping = NoSleep]
       IN  task' = [task EXCEPT ![q] =
                       IF out.metrics.error # None
                       THEN raise(t1, "SearchError")
                       ELSE get_response(t1, system_prompt(t.call.role),
                                         t.call.query, out.results)]

\* The caller of search goes on with what search returned
after_search(q, t, out) ==
    /\ UNCHANGED <<web_search, llm>>
    /\ IF t.call.entry = "WebSearch.search"
       THEN \* a caller outside the pipeline: the search is over
            task' = [task EXCEPT ![q] = Idle]
       ELSE LET t1 == [t EXCEPT !.search_ret = <<out>>, !.searches = @ + 1,
                                !.sleeping = NoSleep]
            IN  task' = [task EXCEPT ![q] =
                            IF llm[t.call.role] = None
                            THEN raise(t1, "AttributeError")
                            ELSE get_response(t1, system_prompt(t.call.role),
                                              t.call.query, out.results)]

\* A _make_request that sends without waiting for a slot (C5 rules it out)
attempt_request_unlimited(q, t, n) ==
    /\ UNCHANGED <<web_search, llm>>
    /\ _semaphore' = _semaphore - 1
    /\ task' = [task EXCEPT ![q] =
                  [t EXCEPT !.pc = "await_get", !.attempt = n,
                            !.sleeping = NoSleep, !.gets = @ + 1]]

\* _make_request, lines 66-77: attempt n enters the semaphore and sends the request,
\* or waits for a slot
attempt_request(q, t, n) ==
    /\ UNCHANGED <<web_search, llm>>
    /\ IF _semaphore > 0
       THEN /\ _semaphore' = _semaphore - 1
            /\ task' = [task EXCEPT ![q] =
                          [t EXCEPT !.pc = "await_get", !.attempt = n,
                                    !.sleeping = NoSleep, !.gets = @ + 1]]
       ELSE /\ UNCHANGED _semaphore
            /\ task' = [task EXCEPT ![q] =
                          [t EXCEPT !.pc = "await_semaphore", !.attempt = n,
                                    !.sleeping = NoSleep]]

\* functools.lru_cache: the value of a call of _get_cached_results, taken from
\* the store when the query is in it, and computed by the wrapped body when not
cached(store, query) ==
    IF query \in DOMAIN store THEN store[query] ELSE _get_cached_results(query)

\* functools.lru_cache: the store after the call (maxsize=100 is never reached)
lru_cache(store, query) ==
    IF query \in DOMAIN store THEN store
    ELSE [k \in DOMAIN store \cup {query} |->
             IF k = query THEN _get_cached_results(query) ELSE store[k]]

\* WebSearch.search up to its first suspension
search(q, t) ==
    LET cached_results == cached(_cache, t.call.query)
    IN  /\ _cache' = lru_cache(_cache, t.call.query)
        /\ IF cached_results # None /\ cached_results # <<>>
           THEN after_search(q, t, search_cached(cached_results)) /\ UNCHANGED _semaphore
           ELSE attempt_request(q, t, 0)

\* A role that asks for the completion without searching first (C6 rules it out)
process_query_completion_first(q, t) ==
    /\ task' = [task EXCEPT ![q] =
                  get_response(t, system_prompt(t.call.role), t.call.query, <<>>)]
    /\ UNCHANGED <<web_search, llm, _semaphore, _cache>>

\* role.process_query up to its first suspension
process_query(q, t) ==
    IF web_search[t.call.role] = None
    THEN /\ task' = [task EXCEPT ![q] = raise(t, "AttributeError")]
         /\ UNCHANGED <<web_search, llm, _semaphore, _cache>>
    ELSE search(q, t)

\* ---------------------------------------------------------------- actions

\* RoleHandler.process_query(query, role), called by the UI
RoleHandler_process_query(q, query, role) ==
    /\ task[q].pc = "idle"
    /\ LET t == [Idle EXCEPT !.call = [entry |-> "RoleHandler.process_query",
                                       role |-> role, query |-> query]]
       IN  IF role \notin RoleKeys
           THEN /\ task' = [task EXCEPT ![q] = raise(t, "ValueError")]
                /\ UNCHANGED <<web_search, llm, _semaphore, _cache>>
           ELSE process_query(q, t)

\* process_query(query) called on a role object that RoleHandler did not build
role_process_query(q, query, r) ==
    /\ task[q].pc = "idle"
    /\ process_query(q, [Idle EXCEPT !.call = [entry |-> "role.process_query",
                                               role |-> r, query |-> query]])

\* WebSearch.search(query, role.get_search_context()) called on the shared instance
WebSearch_search(q, query, r) ==
    /\ task[q].pc = "idle"
    /\ search(q, [Idle EXCEPT !.call = [entry |-> "WebSearch.search",
                                        role |-> r, query |-> query]])

\* BaseRole.initialize(web_search, llm)
initialize(r) ==
    /\ web_search' = [web_search EXCEPT ![r] = "WebSearch"]
    /\ llm' = [llm EXCEPT ![r] = "LLMHandler"]
    /\ UNCHANGED <<_semaphore, _cache, task>>

\* A waiter that is woken and gives the search up instead of sending its request
\* (C23 rules it out)
semaphore_acquired_gives_up(q) ==
    /\ task[q].pc = "await_semaphore"
    /\ _semaphore > 0
    /\ UNCHANGED <<_semaphore, _cache>>
    /\ after_search(q, task[q],
                    search_finish(sanitized_query(task[q].call),
                                  [kind |-> "raise", e |-> "TimeoutError"], <<>>, exact))

\* A task blocked in `async with self._semaphore` gets a slot and sends its request
semaphore_acquired(q) ==
    /\ task[q].pc = "await_semaphore"
    /\ UNCHANGED _cache
    /\ _semaphore > 0
    /\ _semaphore' = _semaphore - 1
    /\ task' = [task EXCEPT ![q] = [@ EXCEPT !.pc = "await_get", !.gets = @ + 1]]
    /\ UNCHANGED <<web_search, llm>>

\* asyncio.sleep(seconds) of the retry loop
backoff(t, seconds, e) ==
    [t EXCEPT !.pc = "await_sleep", !.sleeping = [seconds |-> seconds, after |-> e]]

\* The frame once an upstream attempt has ended
ended(t, outcome) == [t EXCEPT !.outcomes = Append(@, outcome)]

\* A handler that backs off on every error status (C22 rules it out)
on_http_error_retry_all(q, t, response) ==
    IF response.kind = "ConnectError"
    THEN after_search(q, ended(t, "ConnectError"),
                      search_finish(sanitized_query(t.call),
                                    [kind |-> "raise", e |-> "AttributeError"], <<>>, exact))
    ELSE /\ task' = [task EXCEPT ![q] =
                        backoff(ended(t, IF response.status = 429 THEN "429"
                                         ELSE "HTTPStatusError"),
                                2 * (t.attempt + 1), "HTTPError 429")]
         /\ UNCHANGED <<web_search, llm>>

\* _make_request, lines 84-88: the HTTPError handler
on_http_error(q, t, response) ==
    IF response.kind = "ConnectError"
    THEN \* e.response of an error without a response
         after_search(q, ended(t, "ConnectError"),
                      search_finish(sanitized_query(t.call),
                                    [kind |-> "raise", e |-> "AttributeError"], <<>>, exact))
    ELSE IF response.status = 429
    THEN /\ task' = [task EXCEPT ![q] =
                        backoff(ended(t, "429"), 2 * (t.attempt + 1), "HTTPError 429")]
         /\ UNCHANGED <<web_search, llm>>
    ELSE after_search(q, ended(t, "HTTPStatusError"),
                      search_finish(sanitized_query(t.call),
                                    [kind |-> "raise", e |-> "HTTPStatusError"], <<>>, exact))

\* A retry loop that uses the response of its first attempt only (C3 rules it out)
get_returns_first_attempt_only(q, response) ==
    /\ task[q].pc = "await_get"
    /\ UNCHANGED _cache
    /\ _semaphore' = _semaphore + 1
    /\ IF response.kind = "response" /\ response.status = 200
       THEN \E out \in search_returns[task[q].call.role][task[q].call.query][response.json] :
               after_search(q, [ended(task[q], "200") EXCEPT !.body = <<response.json>>],
                   IF task[q].attempt = 0
                   THEN out
                   ELSE search_finish(sanitized_query(task[q].call),
                                      [kind |-> "fall_through"], <<>>, exact))
       ELSE on_http_error(q, task[q], response)

\* The awaited client.get ends with a response or a connection error; leaving
\* `async with` frees the slot
get_returns(q, response) ==
    /\ task[q].pc = "await_get"
    /\ UNCHANGED _cache
    /\ _semaphore' = _semaphore + 1
    /\ IF response.kind = "response" /\ response.status = 200
       THEN \E out \in search_returns[task[q].call.role][task[q].call.query][response.json] :
               after_search(q, [ended(task[q], "200") EXCEPT !.body = <<response.json>>],
                            out)
       ELSE on_http_error(q, task[q], response)

\* A retry loop that gives up on its first timeout (C4 rules it out)
get_times_out_no_retry(q) ==
    /\ task[q].pc = "await_get"
    /\ UNCHANGED _cache
    /\ _semaphore' = _semaphore + 1
    /\ after_search(q, ended(task[q], "TimeoutException"),
           search_finish(sanitized_query(task[q].call),
                         [kind |-> "raise", e |-> "TimeoutException"], <<>>, exact))

\* A retry loop that sleeps inside `async with`, its slot still held (C27 rules
\* it out)
get_times_out_holds_slot(q) ==
    /\ task[q].pc = "await_get"
    /\ UNCHANGED _cache
    /\ IF task[q].attempt = max_retries - 1
       THEN /\ _semaphore' = _semaphore + 1
            /\ after_search(q, ended(task[q], "TimeoutException"),
                   search_finish(sanitized_query(task[q].call),
                                 [kind |-> "raise", e |-> "TimeoutException"], <<>>, exact))
       ELSE /\ UNCHANGED _semaphore
            /\ task' = [task EXCEPT ![q] =
                          backoff(ended(@, "TimeoutException"),
                                  1 * (task[q].attempt + 1), "TimeoutException")]
            /\ UNCHANGED <<web_search, llm>>

\* _make_request, lines 80-83: the awaited client.get exceeds self.timeout
get_times_out(q) ==
    /\ task[q].pc = "await_get"
    /\ UNCHANGED _cache
    /\ _semaphore' = _semaphore + 1
    /\ IF task[q].attempt = max_retries - 1
       THEN after_search(q, ended(task[q], "TimeoutException"),
                search_finish(sanitized_query(task[q].call),
                              [kind |-> "raise", e |-> "TimeoutException"], <<>>, exact))
       ELSE /\ task' = [task EXCEPT ![q] =
                          backoff(ended(@, "TimeoutException"),
                                  1 * (task[q].attempt + 1), "TimeoutException")]
            /\ UNCHANGED <<web_search, llm>>

\* The sleep of the retry loop ends: the next iteration of `for attempt`, or the
\* end of the loop and of the function without a return
sleep_returns(q) ==
    /\ task[q].pc = "await_sleep"
    /\ UNCHANGED _cache
    /\ IF task[q].attempt + 1 < max_retries
       THEN attempt_request(q, task[q], task[q].attempt + 1)
       ELSE /\ UNCHANGED _semaphore
            /\ after_search(q, task[q],
                   search_finish(sanitized_query(task[q].call),
                                 [kind |-> "fall_through"], <<>>, exact))

\* A RoleHandler that hands on the role's pair as it is (C7 rules it out)
returned_value_as_role_returns(c, formatted, metrics) == <<formatted, metrics>>

\* The role's return value (display text, metrics), as the entry point hands it on
returned_value(c, formatted, metrics) ==
    IF c.entry = "RoleHandler.process_query"
    THEN <<metrics, formatted>>
    ELSE <<formatted, metrics>>

\* The awaited completion returns: get_response returns, the role builds its
\* display text and returns, RoleHandler returns
completion_returns(q, raw_response) ==
    /\ task[q].pc = "await_completion"
    /\ LET t == task[q]
           out == t.search_ret[1]
           formatted == formatted_response(t.call.role, t.call.query,
                                           raw_response, out.results)
       IN  task' = [task EXCEPT ![q] =
                      [t EXCEPT !.pc = "returned", !.llm_request = <<>>,
                                !.ret = returned_value(t.call, formatted, out.metrics)]]
    /\ UNCHANGED <<web_search, llm, _semaphore, _cache>>

\* A get_response that sends its request again when the provider fails (C8 rules
\* it out)
completion_fails_retry(q) ==
    /\ task[q].pc = "await_completion"
    /\ task' = [task EXCEPT ![q] =
                  get_response(@, system_prompt(task[q].call.role),
                               task[q].call.query, task[q].search_ret[1].results)]
    /\ UNCHANGED <<web_search, llm, _semaphore, _cache>>

\* The awaited completion raises: get_response logs and re-raises, nobody catches
completion_fails(q) ==
    /\ task[q].pc = "await_completion"
    /\ task' = [task EXCEPT ![q] = raise(@, "APIError")]
    /\ UNCHANGED <<web_search, llm, _semaphore, _cache>>

\* The caller has its value or its exception: the coroutine is gone
finish(q) ==
    /\ task[q].pc \in {"returned", "raised"}
    /\ task' = [task EXCEPT ![q] = Idle]
    /\ UNCHANGED <<web_search, llm, _semaphore, _cache>>

\* -------------------------------------------------------- specifications

\* RoleHandler.__init__: every role of the registry is initialized; a role
\* object built apart is not
InitRoles ==
    /\ web_search = [r \in RoleInstances |-> IF r \in RoleKeys THEN "WebSearch" ELSE None]
    /\ llm = [r \in RoleInstances |-> IF r \in RoleKeys THEN "LLMHandler" ELSE None]
    /\ _semaphore = concurrent_limit
    /\ _cache = [query \in {} |-> None]

Init ==
    /\ InitRoles
    /\ task = [q \in 1..NumQueries |-> Idle]

Next ==
    \/ \E q \in Tasks, query \in Queries, role \in Keys :
          RoleHandler_process_query(q, query, role)
    \/ \E q \in Tasks, query \in Queries : role_process_query(q, query, Standalone)
    \/ initialize(Standalone)
    \/ \E q \in Tasks, response \in Responses : get_returns(q, response)
    \/ \E q \in Tasks : get_times_out(q)
    \/ \E q \in Tasks : sleep_returns(q)
    \/ \E q \in Tasks, raw_response \in RawResponses : completion_returns(q, raw_response)
    \/ \E q \in Tasks : completion_fails(q)
    \/ \E q \in Tasks : finish(q)

\* The pipeline: queries submitted through RoleHandler or to a role object
Spec == Init /\ [][Next]_vars

InitLimiter ==
    /\ InitRoles
    /\ task = [q \in 1..NumSearches |-> Idle]

NextLimiter ==
    \/ \E q \in Tasks, query \in Queries : WebSearch_search(q, query, "fact_checker")
    \/ \E q \in Tasks : semaphore_acquired(q)
    \/ \E q \in Tasks, response \in StatusResponses : get_returns(q, response)
    \/ \E q \in Tasks : get_times_out(q)
    \/ \E q \in Tasks : sleep_returns(q)

\* Concurrent searches on the one WebSearch instance
SpecLimiter == InitLimiter /\ [][NextLimiter]_vars

\* The queries in flight together when one query string is submitted again
RepeatedTasks == 1..(NumQueries + 1)

InitRepeated ==
    /\ InitRoles
    /\ task = [q \in RepeatedTasks |-> Idle]

NextRepeated ==
    \/ \E q \in Tasks, query \in Queries :
          RoleHandler_process_query(q, query, "fact_checker")
    \/ \E q \in Tasks, response \in StatusResponses : get_returns(q, response)
    \/ \E q \in Tasks : get_times_out(q)
    \/ \E q \in Tasks : sleep_returns(q)
    \/ \E q \in Tasks, raw_response \in RawResponses : completion_returns(q, raw_response)
    \/ \E q \in Tasks : finish(q)

\* One query string submitted to the fact checker again and again, also while an
\* earlier submission is still running
SpecRepeated == InitRepeated /\ [][NextRepeated]_vars

\* The ways in which a request in flight ends that differ for the limiter: a
\* response that ends the search (200, or an error status that is not retried);
\* the timeout is an action of its own
EndingResponses ==
    {response \in StatusResponses : response.kind = "response" /\ response.status # 429}

\* The searches of NextLimiter whose requests end with such a response or with
\* the timeout
NextLimiterFair ==
    \/ \E q \in Tasks, query \in Queries : WebSearch_search(q, query, "fact_checker")
    \/ \E q \in Tasks : semaphore_acquired(q)
    \/ \E q \in Tasks, response \in EndingResponses : get_returns(q, response)
    \/ \E q \in Tasks : get_times_out(q)
    \/ \E q \in Tasks : sleep_returns(q)

\* The scheduling that the limiter's progress rests on: an awaited client.get
\* ends, with a response, an error or the timeout of 10 seconds (weak fairness);
\* an awaited sleep ends (weak fairness); and asyncio.Semaphore wakes its
\* waiters in the order of their arrival, so that a waiter for which a slot
\* comes free again and again gets one (strong fairness)
FairLimiter ==
    \A q \in 1..NumSearches :
        /\ WF_vars((\E response \in EndingResponses : get_returns(q, response))
                    \/ get_times_out(q))
        /\ WF_vars(sleep_returns(q))
        /\ SF_vars(semaphore_acquired(q))

\* Concurrent searches on the one WebSearch instance, under that scheduling
SpecLimiterFair == InitLimiter /\ [][NextLimiterFair]_vars /\ FairLimiter

\* ------------------------------------------------- calls of the functions

\* A call of a function that does not suspend: the frame when it has returned
called(entry, args, value) ==
    [Idle EXCEPT !.pc = "returned", !.call = [entry |-> entry, args |-> args],
                 !.ret = <<value>>]

\* fact_checker.parse_llm_response(response)
call_parse_llm_response(q, response) ==
    /\ task[q].pc = "idle"
    /\ task' = [task EXCEPT ![q] =
                  called("fact_checker.parse_llm_response", <<response>>,
                         parse_llm_response(response))]
    /\ UNCHANGED <<web_search, llm, _semaphore, _cache>>

\* role.format_response(raw_response)
call_format_response(q, r, raw_response) ==
    /\ task[q].pc = "idle"
    /\ task' = [task EXCEPT ![q] =
                  called("format_response", <<r, raw_response>>,
                         format_response(r, raw_response))]
    /\ UNCHANGED <<web_search, llm, _semaphore, _cache>>

\* process_query of a role, lines 199-220: the evidence loop on search_results
call_evidence_points(q, search_results) ==
    /\ task[q].pc = "idle"
    /\ task' = [task EXCEPT ![q] =
                  called("evidence_points", <<search_results>>,
                         evidence_points(search_results))]
    /\ UNCHANGED <<web_search, llm, _semaphore, _cache>>

\* WebSearch.calculate_confidence(sources); the frame keeps, after the argument,
\* how floating point rounded in the call
call_calculate_confidence(q, sources) ==
    /\ task[q].pc = "idle"
    /\ \E rounding \in Roundings :
          task' = [task EXCEPT ![q] =
                     called("calculate_confidence", <<sources, rounding>>,
                            calculate_confidence(sources, rounding))]
    /\ UNCHANGED <<web_search, llm, _semaphore, _cache>>

\* search, lines 221-250, once _make_request has returned the body json; the set
\* of query terms is iterated in some order, and floating point rounds in some way
call_search_finish(q, query_string, json) ==
    /\ task[q].pc = "idle"
    /\ \E order \in iteration_orders(Range(split(query_string)), json.web.results),
          rounding \in Roundings :
          task' = [task EXCEPT ![q] =
                     called("search", <<query_string, json>>,
                            search_finish(query_string,
                                          [kind |-> "return", json |-> json],
                                          order, rounding))]
    /\ UNCHANGED <<web_search, llm, _semaphore, _cache>>

\* WebSearch._enhance_query(query, role_context)
call__enhance_query(q, query, role_context) ==
    /\ task[q].pc = "idle"
    /\ task' = [task EXCEPT ![q] =
                  called("_enhance_query", <<query, role_context>>,
                         _enhance_query(query, role_context))]
    /\ UNCHANGED <<web_search, llm, _semaphore, _cache>>

\* WebSearch._calculate_relevance(result, query_terms); the set of lower-cased
\* terms is iterated in some order
call__calculate_relevance(q, result, query_terms) ==
    /\ task[q].pc = "idle"
    /\ \E order \in Orders({lower(term) : term \in query_terms}) :
          task' = [task EXCEPT ![q] =
                     called("_calculate_relevance", <<result, query_terms>>,
                            _calculate_relevance(result, query_terms, order))]
    /\ UNCHANGED <<web_search, llm, _semaphore, _cache>>

\* WebSearch.assess_source_quality(source)
call_assess_source_quality(q, source) ==
    /\ task[q].pc = "idle"
    /\ task' = [task EXCEPT ![q] =
                  IF quality_raises(source)
                  THEN raise([Idle EXCEPT !.call = [entry |-> "assess_source_quality",
                                                   args |-> <<source>>]],
                             "TypeError")
                  ELSE called("assess_source_quality", <<source>>,
                              assess_source_quality(source))]
    /\ UNCHANGED <<web_search, llm, _semaphore, _cache>>

\* role.parse_llm_response(response)
call_role_parse_llm_response(q, r, response) ==
    /\ task[q].pc = "idle"
    /\ LET ended_as == role_parse_llm_response(r, response)
       IN  task' = [task EXCEPT ![q] =
                      IF ended_as.kind = "raise"
                      THEN raise([Idle EXCEPT !.call = [entry |-> "parse_llm_response",
                                                       args |-> <<r, response>>]],
                                 ended_as.e)
                      ELSE called("parse_llm_response", <<r, response>>, ended_as.value)]
    /\ UNCHANGED <<web_search, llm, _semaphore, _cache>>

InitFunctions ==
    /\ InitRoles
    /\ task = <<Idle>>

NextFunctions ==
    \/ \E q \in Tasks, response \in ResponseTexts : call_parse_llm_response(q, response)
    \/ \E q \in Tasks, r \in RoleKeys, raw_response \in ResponseValues :
          call_format_response(q, r, raw_response)
    \/ \E q \in Tasks, r \in RoleKeys, response \in ResponseValues :
          call_role_parse_llm_response(q, r, response)
    \/ \E q \in Tasks, search_results \in ResultLists :
          call_evidence_points(q, search_results)
    \/ \E q \in Tasks, sources \in SourceLists : call_calculate_confidence(q, sources)
    \/ \E q \in Tasks, query_string \in SanitizedQueries, json \in SearchBodies :
          call_search_finish(q, query_string, json)
    \/ \E q \in Tasks, result \in ResultTexts, query_terms \in TermSets :
          call__calculate_relevance(q, result, query_terms)
    \/ \E q \in Tasks, source \in QualitySources : call_assess_source_quality(q, source)
    \/ \E q \in Tasks, query \in Queries, role_context \in RoleContexts :
          call__enhance_query(q, query, role_context)
    \/ \E q \in Tasks : finish(q)

\* The functions of the roles and of the search client, called one at a time
SpecFunctions == InitFunctions /\ [][NextFunctions]_vars

\* ------------------------------------------------------------ properties

\* C1: WebSearch.search never raises to its caller.  Once the upstream call of a
\* run is over the role has a tuple from search, and an exception that reaches
\* the caller after an upstream request comes from the completion alone.  Every
\* failure (the last attempt ended without a 200 response, or a raw result of
\* the body cannot be processed) sets metrics.error, to the name of the timeout
\* or status error where that is what failed; and whenever metrics.error is set
\* the results are empty, the confidence is 0.0 and the reasons are exactly
\* ["No confidence assessment"].
C1_SearchNeverRaises ==
    \A q \in Tasks :
        LET t == task[q]
        IN  /\ (t.gets > 0 /\ t.pc \in {"await_completion", "returned", "raised"})
                  => t.search_ret # <<>>
            /\ (t.pc = "raised" /\ t.gets > 0) => t.exc = "APIError"
            /\ t.search_ret # <<>> =>
                  LET out == t.search_ret[1]
                      last == t.outcomes[Len(t.outcomes)]
                  IN  /\ last # "200" => out.metrics.error # None
                      /\ last \in {"TimeoutException", "HTTPStatusError"}
                            => out.metrics.error = last
                      /\ (last = "200" /\ "web" \in DOMAIN t.body[1]
                            /\ \E i \in DOMAIN t.body[1].web.results :
                                  LET r == t.body[1].web.results[i]
                                  IN  \/ ~({"title", "url", "description"} \subseteq DOMAIN r)
                                      \/ Len(split_on(r.url, "/")) < 3
                                      \/ ("date_published" \in DOMAIN r
                                            /\ r.date_published.type # "int"))
                            => out.metrics.error # None
                      /\ out.metrics.error # None =>
                            /\ out.results = <<>>
                            /\ out.confidence = 0
                            /\ out.reasons = <<"No confidence assessment">>

\* C1, witness: a search whose results were built and counted, and whose source
\* scoring then failed, has returned the failure tuple to its role
C1_Witness ==
    \E q \in Tasks :
        /\ task[q].pc = "await_completion"
        /\ task[q].search_ret # <<>>
        /\ task[q].search_ret[1].metrics.error = "TypeError"
        /\ task[q].search_ret[1].metrics.results_count = 1
        /\ task[q].search_ret[1].results = <<>>

\* C2, as the specification states it: a 429 is followed by a backoff of
\* 2 * (attempt + 1) seconds and then by another upstream attempt, on the last
\* attempt too: a run whose upstream call is over has made an attempt after
\* every 429
C2_Every429IsRetried ==
    \A q \in Tasks :
        LET t == task[q]
        IN  /\ (t.pc = "await_sleep" /\ t.sleeping.after = "HTTPError 429")
                  => t.sleeping.seconds = 2 * (t.attempt + 1)
            /\ t.pc \in {"await_completion", "returned", "raised"} =>
                  \A i \in DOMAIN t.outcomes :
                      t.outcomes[i] = "429" => i < Len(t.outcomes)

\* C3: a 429 on the first attempt and then a 200 whose body holds at least one
\* result, every result of it carrying title, description, a URL with a host
\* segment and no publication date that is not a number (a body search can
\* process; the others are the failures of C1): search returns a non-empty list
\* with metrics.error unset.
C3_RetryAfter429Succeeds ==
    \A q \in Tasks :
        LET t == task[q]
        IN  (/\ t.search_ret # <<>>
             /\ t.outcomes = <<"429", "200">>
             /\ "web" \in DOMAIN t.body[1]
             /\ t.body[1].web.results # <<>>
             /\ \A i \in DOMAIN t.body[1].web.results :
                   LET r == t.body[1].web.results[i]
                   IN  /\ {"title", "url", "description"} \subseteq DOMAIN r
                       /\ Len(split_on(r.url, "/")) >= 3
                       /\ "date_published" \in DOMAIN r => r.date_published.type = "int")
            => /\ t.search_ret[1].results # <<>>
               /\ Len(t.search_ret[1].results) = Len(t.body[1].web.results)
               /\ t.search_ret[1].metrics.error = None

\* C3, witness: after a 429 and a 200 with two results the role holds both
C3_Witness ==
    \E q \in Tasks :
        /\ task[q].outcomes = <<"429", "200">>
        /\ task[q].search_ret # <<>>
        /\ Len(task[q].search_ret[1].results) = 2
        /\ task[q].search_ret[1].metrics.error = None

\* C4: a timeout on an attempt that is not the last is followed by a backoff of
\* 1 * (attempt + 1) seconds and by another attempt (the upstream call is not
\* over while that timeout is its last outcome); a timeout on the last attempt
\* ends the call without a sleep; and when every attempt timed out search
\* returns an empty result list with metrics.error set.
C4_TimeoutRetry ==
    \A q \in Tasks :
        LET t == task[q]
            n == Len(t.outcomes)
        IN  /\ (t.pc = "await_sleep" /\ t.sleeping.after = "TimeoutException") =>
                  /\ t.attempt < max_retries - 1
                  /\ t.sleeping.seconds = 1 * (t.attempt + 1)
                  /\ t.outcomes[n] = "TimeoutException"
            /\ (n > 0 /\ n < max_retries /\ t.outcomes[n] = "TimeoutException") =>
                  /\ t.pc \in {"await_sleep", "await_semaphore", "await_get"}
                  /\ t.pc # "await_sleep" => t.attempt = n
            /\ (n = max_retries /\ t.outcomes[n] = "TimeoutException") =>
                  /\ t.pc \in {"await_completion", "returned", "raised"}
                  /\ t.search_ret # <<>>
                  /\ t.search_ret[1].results = <<>>
                  /\ t.search_ret[1].metrics.error = "TimeoutException"
            /\ (t.pc \in {"await_completion", "returned", "raised"} /\ n > 0
                   /\ \A i \in 1..n : t.outcomes[i] = "TimeoutException") =>
                  /\ n = max_retries
                  /\ t.search_ret[1].results = <<>>
                  /\ t.search_ret[1].metrics.error # None

\* C4, witness: every attempt of a run timed out and its search has returned
C4_Witness ==
    \E q \in Tasks :
        /\ task[q].outcomes = [i \in 1..max_retries |-> "TimeoutException"]
        /\ task[q].search_ret # <<>>
        /\ task[q].gets = max_retries

\* C5: across the concurrent search calls on one WebSearch instance at most 3
\* upstream requests are in flight at any moment.
C5_AtMostThreeInFlight ==
    /\ Cardinality(in_flight) <= 3
    /\ _semaphore = concurrent_limit - Cardinality(in_flight)

\* C5, witness: three requests are in flight and a fourth search waits for a slot
C5_Witness ==
    /\ Cardinality(in_flight) = 3
    /\ \E q \in Tasks : task[q].pc = "await_semaphore"

\* C6: within one query the completion request is issued only after the search
\* call has returned, the two never overlap, and every completion request is
\* preceded by exactly one completed search call, of the same query.
C6_SearchThenCompletion ==
    \A q \in Tasks :
        LET t == task[q]
        IN  /\ t.completions <= t.searches
            /\ t.searches <= 1
            /\ t.completions > 0 =>
                  /\ t.searches = 1
                  /\ t.search_ret # <<>>
                  /\ t.gets = Len(t.outcomes)
            /\ t.llm_request # <<>> =>
                  /\ t.pc = "await_completion"
                  /\ q \notin in_flight
                  /\ t.llm_request[1].user_query = t.call.query
                  /\ Len(t.llm_request[1].sources) = Len(t.search_ret[1].results)
            /\ t.pc \in {"await_semaphore", "await_get", "await_sleep"} =>
                  /\ t.completions = 0
                  /\ t.llm_request = <<>>

\* C6, witness: a completion request is in flight, over the two results of the
\* search that returned before it
C6_Witness ==
    \E q \in Tasks :
        /\ task[q].pc = "await_completion"
        /\ task[q].searches = 1
        /\ task[q].completions = 1
        /\ Len(task[q].llm_request[1].sources) = 2

\* C7: RoleHandler.process_query with a key of no registered role raises the
\* unknown-role error before any search or completion request is issued; with a
\* registered key it returns (metrics, display text), the metrics and the
\* display text that the role's process_query produced, in this order.
C7_RoleHandlerDispatch ==
    \A q \in Tasks :
        LET t == task[q]
        IN  t.call.entry = "RoleHandler.process_query" =>
              /\ t.call.role \notin RoleKeys =>
                    /\ t.pc = "raised"
                    /\ t.exc = "ValueError"
                    /\ t.gets = 0 /\ t.searches = 0 /\ t.completions = 0
                    /\ t.ret = <<>>
              /\ t.call.role \in RoleKeys => t.exc # "ValueError"
              /\ (t.call.role \in RoleKeys /\ t.pc = "returned") =>
                    /\ Len(t.ret) = 2
                    /\ t.ret[1] = t.search_ret[1].metrics
                    /\ \E raw_response \in RawResponses :
                          t.ret[2] = formatted_response(t.call.role, t.call.query,
                                         raw_response, t.search_ret[1].results)

\* C7, witness: RoleHandler has returned for a registered key
C7_Witness ==
    \E q \in Tasks :
        /\ task[q].call.entry = "RoleHandler.process_query"
        /\ task[q].call.role = "technical_expert"
        /\ task[q].pc = "returned"
        /\ task[q].ret[1].results_count = 2

\* C7, witness of the other case: RoleHandler has raised for an unknown key
C7_WitnessUnknown ==
    \E q \in Tasks :
        /\ task[q].call.entry = "RoleHandler.process_query"
        /\ task[q].call.role = "poet"
        /\ task[q].pc = "raised"

\* C8: a completion call issues exactly one request and never retries; an error
\* of the provider propagates out of get_response, of the role's process_query
\* and of RoleHandler.process_query, and no display text is produced.
C8_CompletionOnceAndPropagates ==
    \A q \in Tasks :
        LET t == task[q]
        IN  /\ t.completions <= 1
            /\ t.pc = "await_completion" => t.completions = 1
            /\ t.exc = "APIError" =>
                  /\ t.pc = "raised"
                  /\ t.completions = 1
                  /\ t.ret = <<>>
                  /\ t.llm_request = <<>>
            /\ t.pc = "returned" => t.completions = 1 /\ t.exc = None

\* C8, witness: the provider's error has reached the caller of RoleHandler
C8_Witness ==
    \E q \in Tasks :
        /\ task[q].call.entry = "RoleHandler.process_query"
        /\ task[q].pc = "raised"
        /\ task[q].exc = "APIError"
        /\ task[q].completions = 1

\* C9: a failed search does not abort the role's process_query: the completion
\* is requested over the empty result list, and when it returns the role
\* returns a display text with an empty evidence section together with the
\* metrics that carry the search error (when the completion fails instead, its
\* error is what reaches the caller, as C8 says).
C9_SearchFailureIsNotFatal ==
    \A q \in Tasks :
        LET t == task[q]
        IN  (t.search_ret # <<>> /\ t.search_ret[1].metrics.error # None) =>
              /\ t.completions = 1
              /\ t.pc \in {"await_completion", "returned", "raised"}
              /\ t.pc = "await_completion" => t.llm_request[1].sources = <<>>
              /\ t.pc = "raised" => t.exc = "APIError"
              /\ t.pc = "returned" =>
                    LET display == IF t.call.entry = "RoleHandler.process_query"
                                   THEN t.ret[2] ELSE t.ret[1]
                        metrics == IF t.call.entry = "RoleHandler.process_query"
                                   THEN t.ret[1] ELSE t.ret[2]
                    IN  /\ display.evidence = <<>>
                        /\ display.raw_response \in RawResponses
                        /\ metrics.error = t.search_ret[1].metrics.error

\* C9, witness: the role has returned after a search that failed
C9_Witness ==
    \E q \in Tasks :
        /\ task[q].pc = "returned"
        /\ task[q].search_ret[1].metrics.error = "HTTPStatusError"
        /\ task[q].call.entry = "role.process_query"
        /\ task[q].ret[1].evidence = <<>>

\* C10, as the specification states it: a role is Uninitialized until
\* initialize, and process_query on an Uninitialized role fails with a
\* configuration error and issues no search and no completion request: a run
\* that raised with no request issued, and not for an unknown key, raised a
\* configuration error
C10_UninitializedIsConfigurationError ==
    \A q \in Tasks :
        LET t == task[q]
        IN  /\ (t.pc \in {"await_semaphore", "await_get", "await_sleep", "await_completion"})
                  => web_search[t.call.role] # None /\ llm[t.call.role] # None
            /\ (t.pc = "raised" /\ t.gets = 0 /\ t.completions = 0
                  /\ t.call.role \in RoleInstances)
                  => t.exc \in {"ConfigurationError", "ValueError"}

\* C11, as the specification states it: parse_llm_response of the fact checker,
\* on the text with the lines VERDICT: TRUE / EXPLANATION: because X /
\* CONTEXT: extra / REFERENCES: / - http://a.example / - http://b.example, returns
\* verdict "TRUE", explanation "because X", context "extra" and the references
\* ["http://a.example", "http://b.example"]: every header line seeds its section
\* with the rest of its line
C11_HeadersPopulateFields ==
    \A q \in Tasks :
        (/\ task[q].pc = "returned"
         /\ task[q].call.entry = "fact_checker.parse_llm_response"
         /\ task[q].call.args = <<headers_response>>)
        => LET sections == task[q].ret[1]
           IN  /\ sections.verdict = <<"T", "R", "U", "E">>
               /\ sections.explanation = <<"b", "e", "c", "a", "u", "s", "e", " ", "X">>
               /\ sections.context = <<"e", "x", "t", "r", "a">>
               /\ sections.references = <<strip(Tail(line_ref_a)), strip(Tail(line_ref_b))>>

\* C12, as the specification states it: for every role, format_response of the
\* empty string, or of a text with none of the role's headers in it, returns
\* the raw text wrapped verbatim in <pre>, and does not raise
C12_FallbackOnMalformedInput ==
    \A q \in Tasks :
        (/\ task[q].pc = "returned"
         /\ task[q].call.entry = "format_response"
         /\ task[q].call.args[2].type = "str"
         /\ \A header \in role_headers(task[q].call.args[1]) :
               ~contains(header, task[q].call.args[2].value))
        => task[q].ret[1] = pre_block(task[q].call.args[2].value)

\* C13: the evidence list of a role's process_query holds every distinct URL of
\* the search results exactly once, in the order of first occurrence, numbered
\* 1, 2, ...; each point is made from the first result with its URL, and the
\* later results with that URL are skipped.
C13_EvidenceDeduplicated ==
    \A q \in Tasks :
        (task[q].pc = "returned" /\ task[q].call.entry = "evidence_points") =>
            LET search_results == task[q].call.args[1]
                points == task[q].ret[1]
                first(url) == CHOOSE i \in 1..Len(search_results) :
                                /\ search_results[i].url = url
                                /\ \A j \in 1..(i - 1) : search_results[j].url # url
            IN  /\ \A i \in 1..Len(points) : points[i].number = i
                /\ \A i, j \in 1..Len(points) :
                      i # j => points[i].point.url # points[j].point.url
                /\ {points[i].point.url : i \in 1..Len(points)}
                      = {search_results[i].url : i \in 1..Len(search_results)}
                /\ \A i, j \in 1..Len(points) :
                      i < j => first(points[i].point.url) < first(points[j].point.url)
                /\ \A i \in 1..Len(points) :
                      points[i].point.description
                        = search_results[first(points[i].point.url)].description

\* C13, witness: of three results the first and the last share a URL, and the
\* evidence list has two points
C13_Witness ==
    \E q \in Tasks :
        /\ task[q].pc = "returned"
        /\ task[q].call.entry = "evidence_points"
        /\ Len(task[q].call.args[1]) = 3
        /\ task[q].call.args[1][1].url = task[q].call.args[1][3].url
        /\ task[q].call.args[1][1] # task[q].call.args[1][3]
        /\ task[q].call.args[1][2].url # task[q].call.args[1][1].url
        /\ Len(task[q].ret[1]) = 2

\* C14, as the specification states it: search consults the cache under the raw
\* query string first, and a search for a query that is in the cache returns the
\* cached results with cache_hit = True, confidence 0.0 and the reasons
\* ["No confidence assessment"], and sends no upstream request
C14_CacheHitReturnsCached ==
    [][\A q \in Tasks :
          (/\ task[q].pc = "idle"
           /\ task'[q].call.role \in RoleInstances
           /\ web_search[task'[q].call.role] # None
           /\ task'[q].call.query \in DOMAIN _cache)
          => /\ task'[q].gets = 0
             /\ task'[q].pc # "await_get"
             /\ task'[q].search_ret # <<>>
             /\ task'[q].search_ret[1].metrics.cache_hit
             /\ task'[q].search_ret[1].confidence = 0
             /\ task'[q].search_ret[1].reasons = <<"No confidence assessment">>]_vars

\* C15, as the specification states it: on every path of search, failure
\* included, metrics.total_time is assigned exactly once after the constructor
\* has set it to zero (so it is never left at the default when error is set)
C15_TotalTimeAssignedOnce ==
    \A q \in Tasks :
        task[q].search_ret # <<>> =>
            task[q].search_ret[1].metrics.total_time_set = 1

\* C16: for every non-empty list of source signals calculate_confidence returns a
\* score in [0, 1] (0..100000 in units of 1/100000); for a single signal the
\* consistency is 0.5 and the score is 0.4 * quality + 0.3 * 0.5 + 0.3 * 1/5;
\* and the confidence that search returns is in [0, 1]
C16_ConfidenceInUnitInterval ==
    \A q \in Tasks :
        /\ (/\ task[q].pc = "returned"
            /\ task[q].call.entry = "calculate_confidence"
            /\ task[q].call.args[1] # <<>>)
           => /\ task[q].ret[1].score \in 0..100000
              /\ Len(task[q].call.args[1]) = 1 =>
                    task[q].ret[1].score
                      = 20 * assess_source_quality(task[q].call.args[1][1]) + 15000 + 6000
        /\ (task[q].pc = "returned" /\ task[q].call.entry = "search")
           => task[q].ret[1].confidence \in 0..100000

\* C16, witness: calculate_confidence has returned for a single signal, the one
\* of the best quality
C16_Witness ==
    \E q \in Tasks :
        /\ task[q].pc = "returned"
        /\ task[q].call.entry = "calculate_confidence"
        /\ Len(task[q].call.args[1]) = 1
        /\ assess_source_quality(task[q].call.args[1][1]) = 2000
        /\ task[q].ret[1].score = 61000

\* C17, as the specification states it: the relevance is
\* min(1, count / |terms| * b), where count is the number of distinct lower-cased
\* terms that occur in the lower-cased title and description, |terms| is the
\* number of terms in the set given, and b is 1.5 when the lower-cased terms
\* joined by single spaces occur in that text and 1 otherwise; 0 for no terms
C17_RelevanceOverGivenTerms ==
    \A q \in Tasks :
        (task[q].pc = "returned" /\ task[q].call.entry = "_calculate_relevance") =>
            LET result == task[q].call.args[1]
                terms == task[q].call.args[2]
                text == lower(result.title \o <<" ">> \o result.description)
                count == Cardinality({t \in {lower(term) : term \in terms} :
                                         contains(t, text)})
                n == Cardinality(terms)
                r == task[q].ret[1]
            IN  /\ n = 0 => r.num = 0
                /\ n > 0 =>
                      \A o \in Orders(terms) :
                          LET b2 == IF contains(join(<<" ">>, [i \in 1..n |-> lower(o[i])]),
                                                text)
                                    THEN 3 ELSE 2
                          IN  IF count * b2 >= 2 * n THEN r.num = r.den
                              ELSE r.num * 2 * n = count * b2 * r.den

\* C17, amended: the relevance is min(1, count / n * b), where n is the number of
\* distinct terms after lower-casing, count is the number of them that occur in
\* the lower-cased title and description, and b is 1.5 when they occur there
\* joined by single spaces, in whichever order the set is iterated, and 1
\* otherwise; it is 0 when there are no terms or no term occurs, and it lies
\* in [0, 1]
C17_Relevance ==
    \A q \in Tasks :
        (task[q].pc = "returned" /\ task[q].call.entry = "_calculate_relevance") =>
            LET result == task[q].call.args[1]
                text == lower(result.title \o <<" ">> \o result.description)
                lowered == {lower(term) : term \in task[q].call.args[2]}
                count == Cardinality({t \in lowered : contains(t, text)})
                n == Cardinality(lowered)
                r == task[q].ret[1]
            IN  /\ r.den > 0 /\ 0 <= r.num /\ r.num <= r.den
                /\ (n = 0 \/ count = 0) => r.num = 0
                /\ n > 0 =>
                      \A o \in Orders(lowered) :
                          LET b2 == IF contains(join(<<" ">>, o), text) THEN 3 ELSE 2
                          IN  IF count * b2 >= 2 * n THEN r.num = r.den
                              ELSE r.num * 2 * n = count * b2 * r.den

\* C17, witness: two terms that are one term after lower-casing, and that term
\* occurs in the text: the relevance is 1
C17_Witness ==
    \E q \in Tasks :
        /\ task[q].pc = "returned"
        /\ task[q].call.entry = "_calculate_relevance"
        /\ task[q].call.args[2] = {<<"a">>, <<"A">>}
        /\ contains(<<"a">>, lower(task[q].call.args[1].title))
        /\ task[q].ret[1].num = task[q].ret[1].den

\* C18: for every source signal (any domain, an unknown top-level domain or none
\* at all included; any publication year, future years and years more than ten
\* years past included; any type, unknown ones included) assess_source_quality
\* returns a value in [0, 1] (0..2000 in units of 1/2000) and does not raise
C18_QualityInUnitInterval ==
    \A q \in Tasks :
        task[q].call.entry = "assess_source_quality" =>
            /\ task[q].pc = "returned"
            /\ task[q].exc = None
            /\ task[q].ret[1] \in 0..2000

\* C18, witness: assess_source_quality has returned 1.0 for a signal with an
\* unknown top-level domain, an unknown type and a year in the future, whose
\* three contributions add up to more than 2.0
C18_Witness ==
    \E q \in Tasks :
        /\ task[q].pc = "returned"
        /\ task[q].call.entry = "assess_source_quality"
        /\ task[q].call.args[1].domain = <<"c", ".", "z", "z">>
        /\ task[q].call.args[1].type = "podcast"
        /\ task[q].call.args[1].publication_year.value > CurrentYear
        /\ task[q].ret[1] = 2000

\* C19: the results of a successful search are the provider's results ordered
\* by relevance_score descending, and results of equal relevance keep the order
\* in which the provider returned them
C19_SortedByRelevanceStable ==
    \A q \in Tasks :
        (/\ task[q].pc = "returned"
         /\ task[q].call.entry = "search"
         /\ task[q].ret[1].metrics.error = None)
        => LET raw == task[q].call.args[2].web.results
               results == task[q].ret[1].results
               n == Len(raw)
               same(x, y) == x.relevance_score.num * y.relevance_score.den
                               = y.relevance_score.num * x.relevance_score.den
           IN  /\ Len(results) = n
               /\ \A i, j \in 1..n :
                     i < j => ~rel_gt(results[j].relevance_score,
                                      results[i].relevance_score)
               /\ \E p \in [1..n -> 1..n] :
                     /\ \A i, j \in 1..n : i # j => p[i] # p[j]
                     /\ \A i \in 1..n :
                           /\ results[i].title = raw[p[i]].title
                           /\ results[i].url = raw[p[i]].url
                           /\ results[i].description = raw[p[i]].description
                     /\ \A i, j \in 1..n :
                           (i < j /\ same(results[i], results[j])) => p[i] < p[j]

\* C19, witness: the provider returned a result of relevance 0 and then two
\* different results of relevance 1/2; search returns the two first, in the
\* provider's order, and the other last
C19_Witness ==
    \E q \in Tasks :
        /\ task[q].pc = "returned"
        /\ task[q].call.entry = "search"
        /\ task[q].ret[1].metrics.error = None
        /\ LET raw == task[q].call.args[2].web.results
               results == task[q].ret[1].results
           IN  /\ Len(raw) = 3
               /\ raw[2].url # raw[3].url
               /\ results[1].url = raw[2].url
               /\ results[2].url = raw[3].url
               /\ results[3].description = raw[1].description
               /\ results[1].relevance_score = results[2].relevance_score
               /\ results[3].relevance_score.num = 0
               /\ results[1].relevance_score.num > 0

\* C20, as the specification states it: for every role, the text that
\* process_query passes to search as the role context is not part of any message
\* of the completion request of the same run
C20_ContextNotSentToLLM ==
    \A q \in Tasks :
        task[q].llm_request # <<>> =>
            LET request == task[q].llm_request[1]
                context == get_search_context(task[q].call.role)
            IN  /\ request.system = system_prompt(task[q].call.role)
                /\ ~context_in_system[task[q].call.role]
                /\ ~contains(context, request.user_query)
                /\ \A i \in 1..Len(request.sources) :
                      /\ ~contains(context, request.sources[i].title)
                      /\ ~contains(context, request.sources[i].description)
                      /\ ~contains(context, request.sources[i].url)

\* C20, amended: technical_expert and creative_writer override
\* get_search_context, and their search context is not part of any message of the
\* completion request of the same run; fact_checker and research_assistant
\* inherit BaseRole.get_search_context, and their search context is the system
\* prompt itself, which the request carries as its system message.  In no role
\* is the search context part of the user message.
C20_ContextSentOnlyAsSystemPrompt ==
    /\ \A r \in RoleKeys :
          /\ context_in_system[r] <=> r \in {"fact_checker", "research_assistant"}
          /\ context_in_system[r] => get_search_context(r) = system_prompt(r)
    /\ \A q \in Tasks :
          task[q].llm_request # <<>> =>
              LET request == task[q].llm_request[1]
                  r == task[q].call.role
                  context == get_search_context(r)
              IN  /\ request.system = system_prompt(r)
                  /\ context_in_system[r] <=> role_class(r) = "fact_checker"
                  /\ ~contains(context, request.user_query)
                  /\ \A i \in 1..Len(request.sources) :
                        /\ ~contains(context, request.sources[i].title)
                        /\ ~contains(context, request.sources[i].description)
                        /\ ~contains(context, request.sources[i].url)

\* C20, witness: a technical_expert run has its completion request in flight,
\* with search results in it, and its search context is not in the request
C20_Witness ==
    \E q \in Tasks :
        /\ task[q].pc = "await_completion"
        /\ task[q].call.role = "technical_expert"
        /\ task[q].searches = 1
        /\ Len(task[q].llm_request[1].sources) = 2
        /\ ~context_in_system[task[q].call.role]

\* C21: for every role and every str, parse_llm_response and format_response
\* return and do not raise; and on a text with none of the role's headers in it
\* parse_llm_response returns the role's structure with every field at its
\* default, the empty string or the empty list
C21_ParsersNeverRaise ==
    \A q \in Tasks :
        (/\ task[q].call.entry \in {"parse_llm_response", "format_response"}
         /\ task[q].call.args[2].type = "str")
        => /\ task[q].pc = "returned"
           /\ task[q].exc = None
           /\ (/\ task[q].call.entry = "parse_llm_response"
               /\ \A header \in role_headers(task[q].call.args[1])
                                   \cup {OPINION_WARNING_header} :
                     ~contains(header, task[q].call.args[2].value))
              => task[q].ret[1] = default_sections(task[q].call.args[1])

\* C21, witness: technical_expert.parse_llm_response has returned its defaults
\* for a text of two lines that has headers of other roles only
C21_Witness ==
    \E q \in Tasks :
        /\ task[q].pc = "returned"
        /\ task[q].call.entry = "parse_llm_response"
        /\ task[q].call.args[1] = "technical_expert"
        /\ task[q].call.args[2].type = "str"
        /\ contains(VERDICT_header, task[q].call.args[2].value)
        /\ contains(<<"\n">>, task[q].call.args[2].value)
        /\ task[q].ret[1] = default_sections("technical_expert")

\* C22: an HTTP error response other than 429, on whichever attempt, ends the
\* upstream call at once: it is the last outcome of the search, no backoff sleep
\* and no further upstream request follows it, and search returns the failure
C22_OtherHttpErrorsEndTheCall ==
    \A q \in Tasks :
        LET t == task[q]
        IN  \A i \in DOMAIN t.outcomes :
                t.outcomes[i] = "HTTPStatusError" =>
                    /\ i = Len(t.outcomes)
                    /\ t.gets = i
                    /\ t.pc \notin {"await_sleep", "await_semaphore", "await_get"}
                    /\ t.sleeping = NoSleep
                    /\ t.search_ret # <<>>
                    /\ t.search_ret[1].results = <<>>
                    /\ t.search_ret[1].metrics.error = "HTTPStatusError"

\* C22, witness: the first attempt of a search ended with an error status that
\* is not 429, while a retry was still left, and the search is over after one
\* upstream request
C22_Witness ==
    \E q \in Tasks :
        /\ task[q].outcomes = <<"HTTPStatusError">>
        /\ task[q].gets = 1
        /\ task[q].gets < max_retries
        /\ task[q].pc = "await_completion"
        /\ task[q].search_ret[1].metrics.error = "HTTPStatusError"

\* C23: a search whose upstream attempt finds no free slot waits and does not
\* fail: it leaves the wait only by sending its request; and when every request
\* in flight ends, it does get a slot and sends its request
C23_WaiterGetsASlot ==
    /\ [][\A q \in 1..NumSearches :
             task[q].pc = "await_semaphore" =>
                 /\ task'[q].pc \in {"await_semaphore", "await_get"}
                 /\ task'[q].exc = None
                 /\ task'[q].pc = "await_get" => task'[q].gets = task[q].gets + 1]_vars
    /\ \A q \in 1..NumSearches :
          (task[q].pc = "await_semaphore") ~> (task[q].pc = "await_get")

\* C23, witness: a search is waiting for a slot while three requests are in
\* flight, and it is the retry of a search whose first attempt has ended
C23_Witness ==
    \E q \in Tasks :
        /\ task[q].pc = "await_semaphore"
        /\ task[q].attempt = 1
        /\ _semaphore = 0
        /\ Cardinality(in_flight) = concurrent_limit

\* C24, as the specification states it: a single upstream call ends Succeeded,
\* with the provider's response returned to search, or Failed, with an error
\* propagated to search, and never with neither: once the search of a run that
\* issued a request is over, its last attempt ended with a 200 response (whose
\* body search holds) or with an exception that _make_request let through
C24_CallEndsSucceededOrFailed ==
    \A q \in Tasks :
        LET t == task[q]
        IN  (t.search_ret # <<>> /\ t.gets > 0) =>
                LET last == t.outcomes[Len(t.outcomes)]
                IN  \/ last = "200" /\ t.body # <<>>
                    \/ /\ last \in {"TimeoutException", "HTTPStatusError", "ConnectError"}
                       /\ t.search_ret[1].metrics.error # None

\* C25: for a non-empty list of n signals the reasons of calculate_confidence
\* are, in this order and with nothing else: "High-quality sources found" iff
\* avg_score > 0.7, "Consistent information across sources" iff consistency > 0.7
\* (n > 1 and a standard deviation below 0.3 = 600/2000: the squared differences
\* of all pairs of scores sum to less than 0.3^2 * n * (n - 1)), and "Multiple sources
\* (n) corroborate the information" iff n >= 4; the list is empty when none
\* holds.  Scores are in units of 1/2000; where a value is 7/10 in exact
\* arithmetic the comparison is the one the floating-point value gives.
C25_ReasonsOfConfidence ==
    \A q \in Tasks :
        (/\ task[q].pc = "returned"
         /\ task[q].call.entry = "calculate_confidence"
         /\ task[q].call.args[1] # <<>>)
        => LET sources == task[q].call.args[1]
               rounding == task[q].call.args[2]
               n == Len(sources)
               x == [i \in 1..n |-> assess_source_quality(sources[i])]
               \* twice the sum, over the pairs i < j, of (x[i] - x[j])^2
               pairs == sum_seq([i \in 1..n |->
                            sum_seq([j \in 1..n |-> (x[i] - x[j]) * (x[i] - x[j])])])
               avg_high == \/ sum_seq(x) * 10 > 7 * 2000 * n
                           \/ sum_seq(x) * 10 = 7 * 2000 * n /\ rounding.avg_score
               consistent == /\ n >= 2
                             /\ \/ pairs < 2 * 600 * 600 * n * (n - 1)
                                \/ /\ pairs = 2 * 600 * 600 * n * (n - 1)
                                   /\ rounding.consistency
               multiple == n >= 4
               reasons == task[q].ret[1].reasons
               high_text == <<"High-quality sources found">>
               consistent_text == <<"Consistent information across sources">>
               multiple_text == <<"Multiple sources (" \o ToString(n)
                                    \o ") corroborate the information">>
           IN  /\ reasons = (IF avg_high THEN high_text ELSE <<>>)
                              \o (IF consistent THEN consistent_text ELSE <<>>)
                              \o (IF multiple THEN multiple_text ELSE <<>>)
               /\ (~avg_high /\ ~consistent /\ ~multiple) => reasons = <<>>
               /\ Len(reasons) <= 3

\* C25, witness: calculate_confidence has returned all three reasons, in the
\* order stated, for four signals
C25_Witness ==
    \E q \in Tasks :
        /\ task[q].pc = "returned"
        /\ task[q].call.entry = "calculate_confidence"
        /\ Len(task[q].call.args[1]) = 4
        /\ Len(task[q].ret[1].reasons) = 3
        /\ task[q].ret[1].reasons[1] = "High-quality sources found"
        /\ task[q].ret[1].reasons[2] = "Consistent information across sources"

\* C26, as the specification states it: the role context is scanned, without
\* regard to case, for the keywords fact-check (or "fact check", as the table
\* writes it), research, technical, news and analysis; every category whose
\* keyword occurs contributes its first term, in the table's order, before the
\* unchanged query, and the query comes back unchanged when no keyword occurs
C26_KeywordScan ==
    \A q \in Tasks :
        (task[q].pc = "returned" /\ task[q].call.entry = "_enhance_query")
        => LET query == task[q].call.args[1]
               role_terms == lower(task[q].call.args[2])
               matches(i) ==
                   \/ contains(modifiers[i].key, role_terms)
                   \/ i = 1 /\ contains(<<"f", "a", "c", "t", "-", "c", "h", "e", "c", "k">>,
                                        role_terms)
               prefix(i) == IF matches(i) THEN modifiers[i].terms[1] \o <<" ">> ELSE <<>>
           IN  task[q].ret[1]
                 = prefix(1) \o prefix(2) \o prefix(3) \o prefix(4) \o prefix(5) \o query

\* C26, amended: the role context is scanned, without regard to case, for the
\* modifier terms of each category (a substring test); every category of which
\* at least one of the three terms occurs contributes its first term and no
\* other, in the table's order, each followed by one space, before the
\* unchanged query; the query comes back unchanged when no term occurs
C26_ModifierTermScan ==
    \A q \in Tasks :
        (task[q].pc = "returned" /\ task[q].call.entry = "_enhance_query")
        => LET query == task[q].call.args[1]
               role_terms == lower(task[q].call.args[2])
               matches(i) == \E j \in 1..3 : contains(modifiers[i].terms[j], role_terms)
               prefix(i) == IF matches(i) THEN modifiers[i].terms[1] \o <<" ">> ELSE <<>>
           IN  /\ Len(modifiers) = 5
               /\ \A i \in 1..5 : Len(modifiers[i].terms) = 3
               /\ task[q].ret[1]
                    = prefix(1) \o prefix(2) \o prefix(3) \o prefix(4) \o prefix(5) \o query
               /\ (\A i \in 1..5 : ~matches(i)) => task[q].ret[1] = query

\* C26, witness: for a context that names analysis before news, in capitals,
\* _enhance_query has returned "news analysis " before the query
C26_Witness ==
    \E q \in Tasks :
        /\ task[q].pc = "returned"
        /\ task[q].call.entry = "_enhance_query"
        /\ task[q].call.args[2] = <<"A", "n", "a", "l", "y", "s", "i", "s", " ",
                                    "N", "e", "w", "s">>
        /\ task[q].ret[1] = <<"n", "e", "w", "s", " ",
                              "a", "n", "a", "l", "y", "s", "i", "s", " ">>
                                \o task[q].call.args[1]

\* C27: a slot of the limiter is held only while an upstream request is in
\* flight.  In every state the free slots and the requests in flight add up to 3,
\* so the searches that sleep in a backoff, wait for a slot or are over hold
\* none; and every step in which a request ends (a response, a timeout, an HTTP
\* error) frees exactly one slot in that same step, before the backoff sleep that
\* may follow, while a sleep is entered from a request in flight only.
C27_SlotHeldOnlyInFlight ==
    /\ [](/\ _semaphore + Cardinality({q \in Tasks : task[q].pc = "await_get"})
                = concurrent_limit
          /\ _semaphore \in 0..concurrent_limit
          /\ (\A q \in Tasks : task[q].pc # "await_get") => _semaphore = concurrent_limit)
    /\ [][\A q \in 1..NumSearches :
             /\ (task[q].pc = "await_get" /\ task'[q].pc # "await_get")
                   => _semaphore' = _semaphore + 1
             /\ (task[q].pc # "await_sleep" /\ task'[q].pc = "await_sleep")
                   => /\ task[q].pc = "await_get"
                      /\ _semaphore' = _semaphore + 1
             /\ (task[q].pc # "await_get" /\ task'[q].pc = "await_get")
                   => _semaphore' = _semaphore - 1]_vars

\* C27, witness: a search sleeps in its backoff while the three slots are taken
\* by the requests of three other searches
C27_Witness ==
    /\ \E q \in Tasks : task[q].pc = "await_sleep" /\ task[q].outcomes # <<>>
    /\ Cardinality(in_flight) = concurrent_limit
    /\ _semaphore = 0

\* C28, as the specification states it: on every return of search
\* metrics.results_count is the length of the result list returned, and it is 0
\* whenever metrics.error is set, also when the failure comes after the results
\* were built and counted
C28_ResultsCountIsLength ==
    \A q \in Tasks :
        task[q].search_ret # <<>> =>
            LET out == task[q].search_ret[1]
            IN  /\ out.metrics.results_count = Len(out.results)
                /\ out.metrics.error # None => out.metrics.results_count = 0

\* C29: the search cache never holds results.  In every state every entry that
\* the lru_cache of _get_cached_results holds is None, the metrics of every
\* search that has returned have cache_hit = FALSE, and that search made at
\* least one upstream request; and every search that starts, also one whose
\* query string the lru_cache has an entry for, goes to the provider: its first
\* step issues an upstream request and returns nothing yet.
C29_CacheNeverAnswers ==
    /\ [](/\ \A query \in DOMAIN _cache : _cache[query] = None
          /\ \A q \in Tasks :
                task[q].search_ret # <<>> =>
                    /\ task[q].search_ret[1].metrics.cache_hit = FALSE
                    /\ task[q].gets >= 1)
    /\ [][\A q \in RepeatedTasks :
             (/\ task[q].pc = "idle"
              /\ task'[q].pc # "idle"
              /\ task'[q].call.query \in DOMAIN _cache)
             => /\ task'[q].pc = "await_get"
                /\ task'[q].gets = 1
                /\ task'[q].search_ret = <<>>
                /\ _cache' = _cache]_vars

\* C29, witness: the search of one submission has returned, without a cache hit
\* and with an entry for its query string in the lru_cache, and the search of
\* another submission of the same query string has its request at the provider
C29_Witness ==
    \E q1, q2 \in Tasks :
        /\ q1 # q2
        /\ task[q1].search_ret # <<>>
        /\ task[q1].search_ret[1].metrics.cache_hit = FALSE
        /\ task[q1].gets >= 1
        /\ task[q2].pc = "await_get"
        /\ task[q2].call.query = task[q1].call.query
        /\ task[q2].call.query \in DOMAIN _cache

\* C30, as the specification states it: in fact_checker.parse_llm_response a
\* line that is no header and that follows a VERDICT, CONFIDENCE LEVEL or
\* OPINION WARNING header (the most recent header line) leaves explanation,
\* context and references as they were before that line: the text parses to the
\* same three fields with and without its last line
C30_NonHeaderLineKeepsOtherSections ==
    \A q \in Tasks :
        (/\ task[q].pc = "returned"
         /\ task[q].call.entry = "fact_checker.parse_llm_response")
        => LET lines == split_on(task[q].call.args[1], "\n")
               n == Len(lines)
               all_headers == {VERDICT_header, EXPLANATION_header, CONTEXT_header,
                               REFERENCES_header, CONFIDENCE_LEVEL_header,
                               OPINION_WARNING_header}
               is_header(line) == \E h \in all_headers : startswith(strip(line), h)
               header_lines == {i \in 1..(n - 1) : is_header(lines[i])}
               recent == CHOOSE i \in header_lines : \A j \in header_lines : j <= i
               before == parse_llm_response(join(<<"\n">>, SubSeq(lines, 1, n - 1)))
               after == task[q].ret[1]
           IN  (/\ n >= 2
                /\ strip(lines[n]) # <<>>
                /\ ~is_header(lines[n])
                /\ header_lines # {}
                /\ \E h \in {VERDICT_header, CONFIDENCE_LEVEL_header,
                             OPINION_WARNING_header} :
                      startswith(strip(lines[recent]), h))
               => /\ after.explanation = before.explanation
                  /\ after.context = before.context
                  /\ after.references = before.references

====
